---- MODULE Spec2Model ----
(***************************************************************************)
(* A model of hello-wasm-nitro: the host relay (HostService,               *)
(* handleClientConnection), the enclave executor (handleConnection,        *)
(* ExecuteWASM) and the secret-injection templating functions.             *)
(***************************************************************************)
EXTENDS Integers, Sequences, FiniteSets, TLC

(***************************************************************************)
(* Bounds of the model.                                                    *)
(***************************************************************************)
NumConns == 2      \* concurrent client connections accepted by the relay
MaxMsgs == 2       \* messages the clients send in total
MaxSecretLen == 3  \* length of the enumerated secrets
MaxChunks == 2     \* pieces of a WAT source between "(module" and ")"
NumTasks == 2      \* connections the enclave accepts and serves at once
MaxRuns == 3       \* requests a peer sends in sequence on one connection

Conns == 1..NumConns

(***************************************************************************)
(* Strings are sequences; an error text is a sequence of its parts, so     *)
(* that the empty sequence is the empty string and fmt.Sprintf prefixes.   *)
(***************************************************************************)
EmptyString == <<>>

Errorf(prefix, err) == <<prefix>> \o err

(***************************************************************************)
(* The programs a client can submit, by what each stage of ExecuteWASM     *)
(* makes of them.                                                          *)
(***************************************************************************)
BaseProgram ==
  [wat |-> TRUE, nsecrets |-> 0, injectErr |-> FALSE, compileOK |-> TRUE,
   decodeOK |-> TRUE, moduleOK |-> TRUE, unresolved |-> FALSE,
   exported |-> TRUE, isFunc |-> TRUE, callOK |-> TRUE, retInt32 |-> TRUE,
   value |-> 49]

Programs ==
  { BaseProgram,
    [BaseProgram EXCEPT !.value = 0],
    [BaseProgram EXCEPT !.nsecrets = 1, !.value = 5],
    [BaseProgram EXCEPT !.nsecrets = 1, !.injectErr = TRUE],
    [BaseProgram EXCEPT !.compileOK = FALSE],
    [BaseProgram EXCEPT !.wat = FALSE, !.decodeOK = FALSE],
    [BaseProgram EXCEPT !.wat = FALSE, !.value = 7],
    [BaseProgram EXCEPT !.moduleOK = FALSE],
    [BaseProgram EXCEPT !.nsecrets = 1, !.unresolved = TRUE],
    [BaseProgram EXCEPT !.exported = FALSE],
    [BaseProgram EXCEPT !.isFunc = FALSE],
    [BaseProgram EXCEPT !.callOK = FALSE],
    [BaseProgram EXCEPT !.retInt32 = FALSE] }

(* The programs submitted when several connections are open at once. *)
FewPrograms == { BaseProgram }

(***************************************************************************)
(* WASMExecutor.ExecuteWASM: (result, error) of one execution.  A nil      *)
(* error is the empty sequence.                                            *)
(***************************************************************************)
Ret(result, err) == [result |-> result, err |-> err]

RunModule(p) ==
  IF ~p.moduleOK THEN Ret(0, <<"failed to create WASM module">>)
  ELSE IF p.unresolved THEN Ret(0, <<"failed to create WASM instance">>)
  ELSE IF ~p.exported THEN Ret(0, <<"function not found in WASM module">>)
  ELSE IF ~p.isFunc THEN Ret(0, <<"is not a function">>)
  ELSE IF ~p.callOK THEN Ret(0, <<"WASM function call failed">>)
  ELSE IF p.retInt32 THEN Ret(p.value, EmptyString)
  ELSE Ret(0, <<"unexpected return type from WASM function">>)

ExecuteWASM(p) ==
  IF p.wat
  THEN IF p.nsecrets > 0 /\ p.injectErr
       THEN Ret(0, <<"failed to inject secrets">>)
       ELSE IF ~p.compileOK
            THEN Ret(0, <<"failed to compile WAT to WASM">>)
            ELSE RunModule(p)
  ELSE IF ~p.decodeOK
       THEN Ret(0, <<"failed to decode WASM bytecode">>)
       ELSE RunModule(p)

(***************************************************************************)
(* Wire messages.  A request carries the id (connection, index) of the     *)
(* client message it is; a response carries, as history, the request it    *)
(* was computed from (src, NoReq when the relay made the response up).     *)
(***************************************************************************)
NoId == <<0, 0>>

Malformed == [id |-> NoId, malformed |-> TRUE, prog |-> BaseProgram]

WASMRequest(c, k, p) == [id |-> <<c, k>>, malformed |-> FALSE, prog |-> p]

WASMResponse(result, error, src) ==
  [result |-> result, error |-> error, src |-> src]

NoReq == [id |-> NoId, malformed |-> FALSE, prog |-> BaseProgram]

NoResp == WASMResponse(0, EmptyString, NoReq)

Out(k, id, r) == [k |-> k, req |-> id, resp |-> r]

NoOut == Out(0, NoId, NoResp)

(***************************************************************************)
(* State.                                                                  *)
(***************************************************************************)
VARIABLES
  mainPc,            \* main of the relay: "start" | "serving"
  enclaveUp,         \* environment: a dial of the enclave succeeds
  enclaveConn,       \* HostService.enclaveConn: 0 is nil, else the dial's number
  enclaveConnected,  \* HostService.enclaveConnected
  writer,            \* HostService.mu: the task holding Lock, 0 if none
  readers,           \* HostService.mu: the tasks holding RLock
  toEnc,             \* messages written to the enclave connection, unread
  fromEnc,           \* messages written by the enclave, unread by the relay
  chanBroken,        \* the enclave connection has failed
  epc,               \* handleConnection of the enclave: "idle"|"decode"|"exec"|"closed"
  ereq,              \* handleConnection's wasmReq
  active,            \* the connections that clients open (fixed by Init)
  progSet,           \* the programs clients submit (fixed by Init)
  pipelining,        \* clients send without waiting for responses (fixed by Init)
  sent,              \* per client: messages sent so far
  clientOpen,        \* per client: the client still holds its connection
  inbox,             \* per connection: client messages not yet decoded
  last,              \* per connection: the response the client received last,
                     \* with the index k and id of the request it answers
  ndelivered,        \* per connection: responses the client has received
  pc,                \* per connection: position of handleClientConnection
  req,               \* per connection: req of the loop iteration
  resp,              \* per connection: the response about to be encoded
  nread,             \* per connection: requests decoded so far
  nwritten,          \* per connection: Encode calls on the client connection
  fresh,             \* tasks whose next read of enclaveConnected is ordered
                     \* after its last write (no stale value possible)
  dials,             \* history: successful dials
  inflight,          \* history: tasks between writing a request and reading
                     \* its response on the enclave connection
  fpc,               \* a function applied on its own: its position
  fin,               \* its arguments
  fout,              \* its return values
  files,             \* the enclave's /tmp: temp.wat and temp.wasm
  hc,                \* per enclave connection: handleConnection's position
                     \* and the locals of the ExecuteWASM call it makes
  pending,           \* per enclave connection: requests the peer still sends
  responses,         \* per enclave connection: responses written, in order
  ncompiles,         \* history, per connection: calls of compileWATToWASM
  ncalls,            \* history, per connection: calls of wasmFunc.Call
  ioFaults           \* file operations may fail (fixed by Init)

relayVars == <<mainPc, enclaveConn, enclaveConnected, writer, readers, fresh>>
chanVars == <<toEnc, fromEnc, chanBroken>>
enclaveVars == <<epc, ereq>>
clientVars == <<active, progSet, pipelining, sent, clientOpen, inbox>>
taskVars == <<last, ndelivered, pc, req, resp, nread, nwritten>>
histVars == <<dials, inflight>>

funVars == <<fpc, fin, fout>>

execVars == <<files, hc, pending, responses, ncompiles, ncalls, ioFaults>>

sysVars == <<relayVars, enclaveUp, chanVars, enclaveVars, clientVars,
             taskVars, histVars>>

vars == <<mainPc, enclaveUp, enclaveConn, enclaveConnected, writer, readers,
          toEnc, fromEnc, chanBroken, epc, ereq, active, progSet, pipelining,
          sent, clientOpen, inbox, last, ndelivered, pc, req, resp, nread,
          nwritten, fresh, dials, inflight, fpc, fin, fout, files, hc,
          pending, responses, ncompiles, ncalls, ioFaults>>

(***************************************************************************)
(* The enclave process in detail: one handleConnection per accepted        *)
(* connection, ExecuteWASM step by step, compileWATToWASM on the files     *)
(* /tmp/temp.wat and /tmp/temp.wasm that all executions share.             *)
(***************************************************************************)
Tasks == 1..NumTasks

(* a path of /tmp: missing, or a file and its content *)
NoFile == [exists |-> FALSE, data |-> <<>>]

File(data) == [exists |-> TRUE, data |-> data]

(* compileWATToWASM lines 254-255: watFile, wasmFile *)
NoFiles == [watFile |-> NoFile, wasmFile |-> NoFile]

(* []byte values: nil, the output of wat2wasm for a text, decoded input *)
NoBytes == [kind |-> "nil", of |-> <<>>]

Compiled(text) == [kind |-> "wasm", of |-> text]

Decoded(enc, text) == [kind |-> enc, of |-> text]

(* the enclave's WASMRequest *)
ExecRequest(code, fn, args, secrets) ==
  [code |-> code, fn |-> fn, args |-> args, secrets |-> secrets]

NoExecRequest == ExecRequest(<<>>, <<>>, <<>>, <<>>)

(* the store of an execution: none, or the state of its instance *)
NoStore == [made |-> FALSE, instance |-> FALSE, n |-> 0]

(* handleConnection at the top of its loop *)
HcDecode ==
  [pc |-> "decode", wasmReq |-> NoExecRequest, store |-> NoStore,
   processedWAT |-> <<>>, wasmBytes |-> NoBytes, input |-> <<>>,
   defers |-> {}, ret |-> Ret(0, EmptyString), faulted |-> FALSE]

(* no connection accepted *)
HcOff == [HcDecode EXCEPT !.pc = "off"]

ExecOff ==
  /\ files = NoFiles
  /\ hc = [t \in Tasks |-> HcOff]
  /\ pending = [t \in Tasks |-> <<>>]
  /\ responses = [t \in Tasks |-> <<>>]
  /\ ncompiles = [t \in Tasks |-> 0]
  /\ ncalls = [t \in Tasks |-> 0]
  /\ ioFaults = FALSE

NoFun == [op |-> "none"]

SysInit ==
  /\ mainPc = "start"
  /\ enclaveUp \in BOOLEAN
  /\ enclaveConn = 0
  /\ enclaveConnected = FALSE
  /\ writer = 0
  /\ readers = {}
  /\ toEnc = <<>>
  /\ fromEnc = <<>>
  /\ chanBroken = FALSE
  /\ epc = "idle"
  /\ ereq = NoReq
  /\ \/ active = Conns /\ progSet = FewPrograms /\ pipelining = TRUE
     \/ active = {1} /\ progSet = Programs /\ pipelining = FALSE
  /\ sent = [c \in Conns |-> 0]
  /\ clientOpen = [c \in Conns |-> TRUE]
  /\ inbox = [c \in Conns |-> <<>>]
  /\ last = [c \in Conns |-> NoOut]
  /\ ndelivered = [c \in Conns |-> 0]
  /\ pc = [c \in Conns |-> "decode"]
  /\ req = [c \in Conns |-> NoReq]
  /\ resp = [c \in Conns |-> NoResp]
  /\ nread = [c \in Conns |-> 0]
  /\ nwritten = [c \in Conns |-> 0]
  /\ fresh = Conns
  /\ dials = 0
  /\ inflight = {}

(* The relay and the enclave running: no function is applied on its own. *)
Init ==
  /\ SysInit
  /\ fpc = "off"
  /\ fin = NoFun
  /\ fout = NoFun
  /\ ExecOff

(***************************************************************************)
(* vsock.Dial succeeding inside connectToEnclave: the connection is        *)
(* stored, the flag set, and the enclave's accept loop starts a            *)
(* handleConnection on the new connection.                                 *)
(***************************************************************************)
DialOK(who) ==
  /\ enclaveConn' = dials + 1
  /\ enclaveConnected' = TRUE
  /\ dials' = dials + 1
  /\ fresh' = who
  /\ toEnc' = <<>>
  /\ fromEnc' = <<>>
  /\ chanBroken' = FALSE
  /\ epc' = "decode"
  /\ ereq' = NoReq

ConnectError == <<"failed to connect to enclave">>

(* main: the first connectToEnclave, before the listener accepts clients. *)
MainConnect ==
  /\ mainPc = "start"
  /\ mainPc' = "serving"
  /\ IF enclaveUp
     THEN DialOK(Conns)
     ELSE UNCHANGED <<enclaveConn, enclaveConnected, dials, fresh, chanVars,
                      epc, ereq>>
  /\ UNCHANGED <<enclaveUp, writer, readers, clientVars, taskVars, inflight,
                 funVars, execVars>>

(* Decode that gives up the enclave connection when it returns. *)
DecodeErrorDisconnects(c) ==
  /\ mainPc = "serving"
  /\ c \in active
  /\ pc[c] = "decode"
  /\ \/ /\ inbox[c] # <<>>
        /\ inbox' = [inbox EXCEPT ![c] = Tail(@)]
        /\ IF Head(inbox[c]).malformed
           THEN /\ pc' = [pc EXCEPT ![c] = "done"]
                /\ enclaveConnected' = FALSE
                /\ UNCHANGED <<req, nread>>
           ELSE /\ pc' = [pc EXCEPT ![c] = "check"]
                /\ req' = [req EXCEPT ![c] = Head(inbox[c])]
                /\ nread' = [nread EXCEPT ![c] = @ + 1]
                /\ UNCHANGED enclaveConnected
     \/ /\ inbox[c] = <<>>
        /\ ~clientOpen[c]
        /\ pc' = [pc EXCEPT ![c] = "done"]
        /\ enclaveConnected' = FALSE
        /\ UNCHANGED <<inbox, req, nread>>
  /\ UNCHANGED <<mainPc, enclaveConn, writer, readers, fresh, enclaveUp,
                 chanVars, enclaveVars, active, progSet, pipelining, sent,
                 clientOpen, last, ndelivered, resp, nwritten, histVars,
                 funVars, execVars>>

(***************************************************************************)
(* handleClientConnection, one action per blocking step of the loop.       *)
(***************************************************************************)
Decode(c) ==
  /\ mainPc = "serving"
  /\ c \in active
  /\ pc[c] = "decode"
  /\ \/ /\ inbox[c] # <<>>
        /\ inbox' = [inbox EXCEPT ![c] = Tail(@)]
        /\ IF Head(inbox[c]).malformed
           THEN /\ pc' = [pc EXCEPT ![c] = "done"]
                /\ UNCHANGED <<req, nread>>
           ELSE /\ pc' = [pc EXCEPT ![c] = "check"]
                /\ req' = [req EXCEPT ![c] = Head(inbox[c])]
                /\ nread' = [nread EXCEPT ![c] = @ + 1]
     \/ /\ inbox[c] = <<>>
        /\ ~clientOpen[c]
        /\ pc' = [pc EXCEPT ![c] = "done"]
        /\ UNCHANGED <<inbox, req, nread>>
  /\ UNCHANGED <<relayVars, enclaveUp, chanVars, enclaveVars, active,
                 progSet, pipelining, sent, clientOpen, last, ndelivered,
                 resp, nwritten, histVars, funVars, execVars>>

(* line 149: the read of enclaveConnected outside the lock. *)
SeenConnected(c) ==
  IF c \in fresh THEN {enclaveConnected} ELSE {enclaveConnected, FALSE}

CheckConnected(c) ==
  /\ pc[c] = "check"
  /\ \E seen \in SeenConnected(c) :
       pc' = [pc EXCEPT ![c] = IF seen THEN "rlock" ELSE "lock"]
  /\ UNCHANGED <<relayVars, enclaveUp, chanVars, enclaveVars, clientVars,
                 last, ndelivered, req, resp, nread, nwritten, histVars,
                 funVars, execVars>>

(* connectToEnclave: h.mu.Lock() returns. *)
CanLock == writer = 0 /\ readers = {}

Lock(c) ==
  /\ pc[c] = "lock"
  /\ CanLock
  /\ writer' = c
  /\ pc' = [pc EXCEPT ![c] = "dial"]
  /\ fresh' = IF enclaveConnected THEN fresh \cup {c} ELSE fresh
  /\ UNCHANGED <<mainPc, enclaveConn, enclaveConnected, readers, enclaveUp,
                 chanVars, enclaveVars, clientVars, last, ndelivered, req,
                 resp, nread, nwritten, histVars, funVars, execVars>>

(* ConnectToEnclave with the flag set before the dial's error is checked. *)
ConnectToEnclaveFlagFirst(c) ==
  /\ pc[c] = "dial"
  /\ writer = c
  /\ writer' = 0
  /\ IF enclaveConnected
     THEN /\ pc' = [pc EXCEPT ![c] = "rlock"]
          /\ UNCHANGED <<enclaveConn, enclaveConnected, dials, fresh, chanVars,
                         epc, ereq, resp>>
     ELSE IF enclaveUp
          THEN /\ DialOK({c})
               /\ pc' = [pc EXCEPT ![c] = "rlock"]
               /\ UNCHANGED resp
          ELSE /\ pc' = [pc EXCEPT ![c] = "replyErr"]
               /\ resp' = [resp EXCEPT ![c] =
                    WASMResponse(0, Errorf("Could not connect to enclave",
                                           ConnectError), NoReq)]
               /\ enclaveConnected' = TRUE
               /\ UNCHANGED <<enclaveConn, dials, fresh, chanVars, epc, ereq>>
  /\ UNCHANGED <<mainPc, readers, enclaveUp, clientVars, last, ndelivered,
                 req, nread, nwritten, inflight, funVars, execVars>>

(* ConnectToEnclave storing what the dial returned before checking err. *)
ConnectToEnclaveStoreFirst(c) ==
  /\ pc[c] = "dial"
  /\ writer = c
  /\ writer' = 0
  /\ IF enclaveConnected
     THEN /\ pc' = [pc EXCEPT ![c] = "rlock"]
          /\ UNCHANGED <<enclaveConn, enclaveConnected, dials, fresh, chanVars,
                         epc, ereq, resp>>
     ELSE IF enclaveUp
          THEN /\ DialOK({c})
               /\ pc' = [pc EXCEPT ![c] = "rlock"]
               /\ UNCHANGED resp
          ELSE /\ pc' = [pc EXCEPT ![c] = "replyErr"]
               /\ resp' = [resp EXCEPT ![c] =
                    WASMResponse(0, Errorf("Could not connect to enclave",
                                           ConnectError), NoReq)]
               /\ enclaveConn' = dials + 1
               /\ UNCHANGED <<enclaveConnected, dials, fresh, chanVars, epc,
                              ereq>>
  /\ UNCHANGED <<mainPc, readers, enclaveUp, clientVars, last, ndelivered,
                 req, nread, nwritten, inflight, funVars, execVars>>

(* ConnectToEnclave without the check of enclaveConnected under the lock. *)
ConnectToEnclaveNoCheck(c) ==
  /\ pc[c] = "dial"
  /\ writer = c
  /\ writer' = 0
  /\ IF enclaveUp
     THEN /\ DialOK({c})
          /\ pc' = [pc EXCEPT ![c] = "rlock"]
          /\ UNCHANGED resp
     ELSE /\ pc' = [pc EXCEPT ![c] = "replyErr"]
          /\ resp' = [resp EXCEPT ![c] =
               WASMResponse(0, Errorf("Could not connect to enclave",
                                      ConnectError), NoReq)]
          /\ UNCHANGED <<enclaveConn, enclaveConnected, dials, fresh,
                         chanVars, epc, ereq>>
  /\ UNCHANGED <<mainPc, readers, enclaveUp, clientVars, last, ndelivered,
                 req, nread, nwritten, inflight, funVars, execVars>>

(* connectToEnclave after Lock: the body and the deferred Unlock. *)
ConnectToEnclave(c) ==
  /\ pc[c] = "dial"
  /\ writer = c
  /\ writer' = 0
  /\ IF enclaveConnected
     THEN /\ pc' = [pc EXCEPT ![c] = "rlock"]
          /\ UNCHANGED <<enclaveConn, enclaveConnected, dials, fresh, chanVars,
                         epc, ereq, resp>>
     ELSE IF enclaveUp
          THEN /\ DialOK({c})
               /\ pc' = [pc EXCEPT ![c] = "rlock"]
               /\ UNCHANGED resp
          ELSE /\ pc' = [pc EXCEPT ![c] = "replyErr"]
               /\ resp' = [resp EXCEPT ![c] =
                    WASMResponse(0, Errorf("Could not connect to enclave",
                                           ConnectError), NoReq)]
               /\ UNCHANGED <<enclaveConn, enclaveConnected, dials, fresh,
                              chanVars, epc, ereq>>
  /\ UNCHANGED <<mainPc, readers, enclaveUp, clientVars, last, ndelivered,
                 req, nread, nwritten, inflight, funVars, execVars>>

ForwardError(c, err) ==
  resp' = [resp EXCEPT ![c] =
             WASMResponse(0, Errorf("Enclave communication error", err), NoReq)]

(* forwardToEnclave: h.mu.RLock() returns, and the check of line 69. *)
CanRLock == writer = 0 /\ \A d \in Conns : pc[d] # "lock"

(* RLock without the check of line 69. *)
RLockNoCheck(c) ==
  /\ pc[c] = "rlock"
  /\ CanRLock
  /\ fresh' = IF enclaveConnected THEN fresh \cup {c} ELSE fresh
  /\ readers' = readers \cup {c}
  /\ pc' = [pc EXCEPT ![c] = "send"]
  /\ UNCHANGED <<mainPc, enclaveConn, enclaveConnected, writer, enclaveUp,
                 chanVars, enclaveVars, clientVars, last, ndelivered, req,
                 resp, nread, nwritten, histVars, funVars, execVars>>

RLock(c) ==
  /\ pc[c] = "rlock"
  /\ CanRLock
  /\ fresh' = IF enclaveConnected THEN fresh \cup {c} ELSE fresh
  /\ IF ~enclaveConnected \/ enclaveConn = 0
     THEN /\ ForwardError(c, <<"not connected to enclave">>)
          /\ pc' = [pc EXCEPT ![c] = "replyErr"]
          /\ UNCHANGED readers
     ELSE /\ readers' = readers \cup {c}
          /\ pc' = [pc EXCEPT ![c] = "send"]
          /\ UNCHANGED resp
  /\ UNCHANGED <<mainPc, enclaveConn, enclaveConnected, writer, enclaveUp,
                 chanVars, enclaveVars, clientVars, last, ndelivered, req,
                 nread, nwritten, histVars, funVars, execVars>>

(***************************************************************************)
(* forwardToEnclave: encoder.Encode(req) on the enclave connection.  A     *)
(* write to a failed connection reports the error, or is lost.             *)
(***************************************************************************)
Send(c) ==
  /\ pc[c] = "send"
  /\ \/ /\ ~chanBroken
        /\ toEnc' = Append(toEnc, req[c])
        /\ pc' = [pc EXCEPT ![c] = "recv"]
        /\ inflight' = inflight \cup {c}
        /\ UNCHANGED <<readers, resp>>
     \/ /\ chanBroken
        /\ pc' = [pc EXCEPT ![c] = "recv"]
        /\ inflight' = inflight \cup {c}
        /\ UNCHANGED <<toEnc, readers, resp>>
     \/ /\ chanBroken
        /\ ForwardError(c, <<"failed to send request to enclave">>)
        /\ readers' = readers \ {c}
        /\ pc' = [pc EXCEPT ![c] = "replyErr"]
        /\ UNCHANGED <<toEnc, inflight>>
  /\ UNCHANGED <<mainPc, enclaveConn, enclaveConnected, writer, fresh,
                 enclaveUp, fromEnc, chanBroken, enclaveVars, clientVars,
                 last, ndelivered, req, nread, nwritten, dials, funVars, execVars>>

(* Recv that marks the channel disconnected when the read fails. *)
RecvErrorDisconnects(c) ==
  /\ pc[c] = "recv"
  /\ \/ /\ fromEnc # <<>>
        /\ \E n \in 1..Len(fromEnc) :
             fromEnc' = SubSeq(fromEnc, n + 1, Len(fromEnc))
        /\ resp' = [resp EXCEPT ![c] = Head(fromEnc)]
        /\ pc' = [pc EXCEPT ![c] = "reply"]
        /\ UNCHANGED <<enclaveConn, enclaveConnected>>
     \/ /\ fromEnc = <<>>
        /\ chanBroken
        /\ ForwardError(c, <<"failed to decode WASM response from enclave">>)
        /\ pc' = [pc EXCEPT ![c] = "replyErr"]
        /\ enclaveConn' = 0
        /\ enclaveConnected' = FALSE
        /\ UNCHANGED fromEnc
  /\ readers' = readers \ {c}
  /\ inflight' = inflight \ {c}
  /\ UNCHANGED <<mainPc, writer, fresh, enclaveUp, toEnc, chanBroken,
                 enclaveVars, clientVars, last, ndelivered, req, nread,
                 nwritten, dials, funVars, execVars>>

(***************************************************************************)
(* forwardToEnclave: decoder.Decode(&response) with a decoder made for     *)
(* this call.  The decoder reads what the connection holds into its own    *)
(* buffer (n messages), decodes the first and is dropped with the rest.    *)
(***************************************************************************)
Recv(c) ==
  /\ pc[c] = "recv"
  /\ \/ /\ fromEnc # <<>>
        /\ \E n \in 1..Len(fromEnc) :
             fromEnc' = SubSeq(fromEnc, n + 1, Len(fromEnc))
        /\ resp' = [resp EXCEPT ![c] = Head(fromEnc)]
        /\ pc' = [pc EXCEPT ![c] = "reply"]
     \/ /\ fromEnc = <<>>
        /\ chanBroken
        /\ ForwardError(c, <<"failed to decode WASM response from enclave">>)
        /\ pc' = [pc EXCEPT ![c] = "replyErr"]
        /\ UNCHANGED fromEnc
  /\ readers' = readers \ {c}
  /\ inflight' = inflight \ {c}
  /\ UNCHANGED <<mainPc, enclaveConn, enclaveConnected, writer, fresh,
                 enclaveUp, toEnc, chanBroken, enclaveVars, clientVars, last,
                 ndelivered, req, nread, nwritten, dials, funVars, execVars>>

(***************************************************************************)
(* encoder.Encode on the client connection.  A write to a connection the   *)
(* client has left delivers nothing, and may or may not report an error.   *)
(* The next loop iteration declares a new req.                             *)
(***************************************************************************)
EncodeOutcomes(c) == IF clientOpen[c] THEN {TRUE} ELSE {TRUE, FALSE}

Encode(c) ==
  /\ nwritten' = [nwritten EXCEPT ![c] = @ + 1]
  /\ IF clientOpen[c]
     THEN /\ last' = [last EXCEPT ![c] = Out(nread[c], req[c].id, resp[c])]
          /\ ndelivered' = [ndelivered EXCEPT ![c] = @ + 1]
     ELSE UNCHANGED <<last, ndelivered>>
  /\ req' = [req EXCEPT ![c] = NoReq]
  /\ resp' = [resp EXCEPT ![c] = NoResp]

(* lines 172-177: the response of the enclave; a failed write returns. *)
Reply(c) ==
  /\ pc[c] = "reply"
  /\ Encode(c)
  /\ \E ok \in EncodeOutcomes(c) :
       pc' = [pc EXCEPT ![c] = IF ok THEN "decode" ELSE "done"]
  /\ UNCHANGED <<relayVars, enclaveUp, chanVars, enclaveVars, clientVars,
                 nread, histVars, funVars, execVars>>

(* ReplyErr with the Encode call left out before continue. *)
ReplyErrNoEncode(c) ==
  /\ pc[c] = "replyErr"
  /\ pc' = [pc EXCEPT ![c] = "decode"]
  /\ req' = [req EXCEPT ![c] = NoReq]
  /\ resp' = [resp EXCEPT ![c] = NoResp]
  /\ UNCHANGED <<relayVars, enclaveUp, chanVars, enclaveVars, clientVars,
                 last, ndelivered, nread, nwritten, histVars, funVars, execVars>>

(* lines 155-156 and 168-169: a synthesized error response, then continue. *)
ReplyErr(c) ==
  /\ pc[c] = "replyErr"
  /\ Encode(c)
  /\ pc' = [pc EXCEPT ![c] = "decode"]
  /\ UNCHANGED <<relayVars, enclaveUp, chanVars, enclaveVars, clientVars,
                 nread, histVars, funVars, execVars>>

(***************************************************************************)
(* handleConnection of the enclave.                                        *)
(***************************************************************************)
EnclaveDecode ==
  /\ epc = "decode"
  /\ \/ /\ toEnc # <<>>
        /\ ereq' = Head(toEnc)
        /\ toEnc' = Tail(toEnc)
        /\ epc' = "exec"
     \/ /\ toEnc = <<>>
        /\ chanBroken
        /\ epc' = "closed"
        /\ UNCHANGED <<ereq, toEnc>>
  /\ UNCHANGED <<relayVars, enclaveUp, fromEnc, chanBroken, clientVars,
                 taskVars, histVars, funVars, execVars>>

(* HandleResponse without the assignment to response.Error. *)
HandleResponseNoError(r, rq) == WASMResponse(r.result, EmptyString, rq)

(* lines 371-379: the response built from ExecuteWASM's return values. *)
HandleResponse(r, rq) ==
  WASMResponse(r.result,
               IF r.err # EmptyString
               THEN Errorf("WASM execution failed", r.err)
               ELSE EmptyString,
               rq)

(* EnclaveRespond with a return when the execution has failed. *)
EnclaveRespondReturnOnError ==
  /\ epc = "exec"
  /\ IF chanBroken \/ ExecuteWASM(ereq.prog).err # EmptyString
     THEN /\ epc' = "closed"
          /\ UNCHANGED fromEnc
     ELSE /\ fromEnc' = Append(fromEnc,
                               HandleResponse(ExecuteWASM(ereq.prog), ereq))
          /\ epc' = "decode"
  /\ ereq' = NoReq
  /\ UNCHANGED <<relayVars, enclaveUp, toEnc, chanBroken, clientVars,
                 taskVars, histVars, funVars, execVars>>

(* lines 371-389: execute, encode the response; a failed write returns. *)
EnclaveRespond ==
  /\ epc = "exec"
  /\ IF chanBroken
     THEN /\ epc' = "closed"
          /\ UNCHANGED fromEnc
     ELSE /\ fromEnc' = Append(fromEnc,
                               HandleResponse(ExecuteWASM(ereq.prog), ereq))
          /\ epc' = "decode"
  /\ ereq' = NoReq
  /\ UNCHANGED <<relayVars, enclaveUp, toEnc, chanBroken, clientVars,
                 taskVars, histVars, funVars, execVars>>

(***************************************************************************)
(* The environment: clients, and the enclave's availability.               *)
(***************************************************************************)
RECURSIVE Total(_, _)
Total(f, S) ==
  IF S = {} THEN 0
  ELSE LET c == CHOOSE x \in S : TRUE IN f[c] + Total(f, S \ {c})

(* wasm-client sends a request and waits for its response; a pipelining   *)
(* client sends its next message at any time.                              *)
MaySend(c) == pipelining \/ (inbox[c] = <<>> /\ pc[c] = "decode")

ClientSend(c) ==
  /\ c \in active
  /\ clientOpen[c]
  /\ Total(sent, Conns) < MaxMsgs
  /\ MaySend(c)
  /\ sent' = [sent EXCEPT ![c] = @ + 1]
  /\ \E m \in {Malformed}
                 \cup {WASMRequest(c, sent[c] + 1, p) : p \in progSet} :
       inbox' = [inbox EXCEPT ![c] = Append(@, m)]
  /\ UNCHANGED <<relayVars, enclaveUp, chanVars, enclaveVars, active,
                 progSet, pipelining, clientOpen, taskVars, histVars,
                 funVars, execVars>>

ClientClose(c) ==
  /\ c \in active
  /\ clientOpen[c]
  /\ clientOpen' = [clientOpen EXCEPT ![c] = FALSE]
  /\ UNCHANGED <<relayVars, enclaveUp, chanVars, enclaveVars, active,
                 progSet, pipelining, sent, inbox, taskVars, histVars,
                 funVars, execVars>>

(* The enclave finishes starting and listens: dials succeed from now on. *)
EnclaveStart ==
  /\ ~enclaveUp
  /\ enclaveUp' = TRUE
  /\ UNCHANGED <<relayVars, chanVars, enclaveVars, clientVars, taskVars,
                 histVars, funVars, execVars>>

ChannelBreak ==
  /\ enclaveConnected
  /\ ~chanBroken
  /\ chanBroken' = TRUE
  /\ UNCHANGED <<relayVars, enclaveUp, toEnc, fromEnc, enclaveVars,
                 clientVars, taskVars, histVars, funVars, execVars>>

Next ==
  \/ MainConnect
  \/ \E c \in Conns : Decode(c)
  \/ \E c \in Conns : CheckConnected(c)
  \/ \E c \in Conns : Lock(c)
  \/ \E c \in Conns : ConnectToEnclave(c)
  \/ \E c \in Conns : RLock(c)
  \/ \E c \in Conns : Send(c)
  \/ \E c \in Conns : Recv(c)
  \/ \E c \in Conns : Reply(c)
  \/ \E c \in Conns : ReplyErr(c)
  \/ EnclaveDecode
  \/ EnclaveRespond
  \/ \E c \in Conns : ClientSend(c)
  \/ \E c \in Conns : ClientClose(c)
  \/ EnclaveStart
  \/ ChannelBreak

Spec == Init /\ [][Next]_vars

(***************************************************************************)
(* Scheduling: every task of the relay and the enclave's handler keep      *)
(* running when they can take a step; clients and failures are free.       *)
(***************************************************************************)
TaskStep(c) ==
  \/ Decode(c) \/ CheckConnected(c) \/ Lock(c) \/ ConnectToEnclave(c)
  \/ RLock(c) \/ Send(c) \/ Recv(c) \/ Reply(c) \/ ReplyErr(c)

Fairness ==
  /\ WF_vars(MainConnect)
  /\ \A c \in Conns : WF_vars(TaskStep(c))
  /\ WF_vars(EnclaveDecode)
  /\ WF_vars(EnclaveRespond)

FairSpec == Spec /\ Fairness

(***************************************************************************)
(* Texts (WAT source, secrets, literals) are sequences of one-character    *)
(* strings.                                                                *)
(***************************************************************************)
Least(S) == CHOOSE j \in S : \A k \in S : j <= k

Greatest(S) == CHOOSE j \in S : \A k \in S : j >= k

HasPrefixAt(s, i, lit) ==
  /\ i >= 1
  /\ i + Len(lit) - 1 <= Len(s)
  /\ SubSeq(s, i, i + Len(lit) - 1) = lit

(* strings.Index, searching from position i: 0 when sub does not occur. *)
Index(s, sub, i) ==
  LET found == {j \in i..Len(s) : HasPrefixAt(s, j, sub)} IN
    IF found = {} THEN 0 ELSE Least(found)

Contains(s, sub) == Index(s, sub, 1) # 0

(* strings.Replace(s, old, new, 1), old not empty. *)
ReplaceFirst(s, old, new) ==
  LET j == Index(s, old, 1) IN
    IF j = 0 THEN s
    ELSE SubSeq(s, 1, j - 1) \o new \o SubSeq(s, j + Len(old), Len(s))

(***************************************************************************)
(* strconv.ParseInt(secret, 10, bitSize) and fmt.Sprintf("%d", intVal).    *)
(* The parsed value is kept as its sign and decimal magnitude.             *)
(***************************************************************************)
Digits == {"0", "1", "2", "3", "4", "5", "6", "7", "8", "9"}

DigitChar == <<"0", "1", "2", "3", "4", "5", "6", "7", "8", "9">>

DigitValue(ch) == CHOOSE d \in 0..9 : DigitChar[d + 1] = ch

Unsigned(s) == IF s # <<>> /\ s[1] \in {"+", "-"} THEN Tail(s) ELSE s

AllDigits(s) == s # <<>> /\ \A i \in 1..Len(s) : s[i] \in Digits

(* s from its first character that is not "0" on; <<>> if there is none *)
StripLeadingZeros(s) ==
  LET found == {j \in 1..Len(s) : s[j] # "0"} IN
    IF found = {} THEN <<>> ELSE SubSeq(s, Least(found), Len(s))

(* the digits of a magnitude without leading zeros *)
StripZeros(s) ==
  IF StripLeadingZeros(s) = <<>> /\ s # <<>> THEN <<"0">>
  ELSE StripLeadingZeros(s)

(* a <= b for digit strings of the same length *)
LexLE(a, b) ==
  \/ a = b
  \/ \E i \in 1..Len(a) :
       /\ DigitValue(a[i]) < DigitValue(b[i])
       /\ \A j \in 1..(i - 1) : a[j] = b[j]

MagnitudeLE(a, b) == Len(a) < Len(b) \/ (Len(a) = Len(b) /\ LexLE(a, b))

MaxMagnitude(bitSize, neg) ==
  IF bitSize = 32
  THEN IF neg THEN <<"2", "1", "4", "7", "4", "8", "3", "6", "4",
                     "8">> ELSE <<"2", "1", "4", "7", "4", "8", "3", "6",
                     "4", "7">>
  ELSE IF neg THEN <<"9", "2", "2", "3", "3", "7", "2", "0", "3", "6", "8",
                     "5", "4", "7", "7", "5", "8", "0", "8">> ELSE <<"9",
                     "2", "2", "3", "3", "7", "2", "0", "3", "6", "8", "5",
                     "4", "7", "7", "5", "8", "0", "7">>

ParseInt(s, bitSize) ==
  LET neg == s # <<>> /\ s[1] = "-"
      mag == StripZeros(Unsigned(s))
  IN IF AllDigits(Unsigned(s)) /\ MagnitudeLE(mag, MaxMagnitude(bitSize, neg))
     THEN [ok |-> TRUE, neg |-> neg /\ mag # <<"0">>, mag |-> mag]
     ELSE [ok |-> FALSE, neg |-> FALSE, mag |-> <<>>]

FormatParsed(v) == (IF v.neg THEN <<"-">> ELSE <<>>) \o v.mag

(***************************************************************************)
(* simpleStringHash: int32 arithmetic that wraps, on 16-bit halves.        *)
(***************************************************************************)
CodePoint ==
  [ch \in Digits |-> 48 + DigitValue(ch)] @@
  ("+" :> 43 @@ "-" :> 45 @@ "." :> 46 @@
   "a" :> 97 @@ "b" :> 98 @@ "c" :> 99 @@ "d" :> 100 @@ "e" :> 101 @@
   "f" :> 102 @@ "h" :> 104 @@ "i" :> 105 @@ "j" :> 106 @@ "k" :> 107 @@
   "l" :> 108 @@ "n" :> 110 @@ "o" :> 111 @@ "s" :> 115 @@ "t" :> 116 @@
   "x" :> 120)

Wrap16(x) == ((x + 32768) % 65536) - 32768

Int32(hi, lo) == hi * 65536 + lo

(* hash*31 + int32(c) *)
MulAdd32(hash, c) ==
  LET t == (hash % 65536) * 31 + (c % 65536) IN
    Int32(Wrap16((hash \div 65536) * 31 + (c \div 65536) + (t \div 65536)),
          t % 65536)

(* -hash *)
Neg32(hash) ==
  LET lo == hash % 65536 IN
    Int32(Wrap16(0 - (hash \div 65536) - (IF lo = 0 THEN 0 ELSE 1)),
          (65536 - lo) % 65536)

(* hash after the loop has run over the first n characters of s (the set  *)
(* binds h to the value of hash after n - 1 characters)                    *)
RECURSIVE HashLoop(_, _)
HashLoop(s, n) ==
  IF n = 0 THEN 0
  ELSE CHOOSE r \in {MulAdd32(h, CodePoint[s[n]]) :
                       h \in {HashLoop(s, n - 1)}} : TRUE

simpleStringHash(s) ==
  LET hash == HashLoop(s, Len(s)) IN IF hash < 0 THEN Neg32(hash) ELSE hash

(* fmt.Sprintf("%d", hash), and of int64(hash): the same decimal text. *)
RECURSIVE DigitsOfNeg(_)
DigitsOfNeg(n) ==
  IF n = 0 THEN <<>>
  ELSE LET d == (10 - (n % 10)) % 10 IN
         DigitsOfNeg((n + d) \div 10) \o <<DigitChar[d + 1]>>

FormatInt32(n) ==
  IF n = 0 THEN <<"0">>
  ELSE IF n < 0 THEN <<"-">> \o DigitsOfNeg(n)
  ELSE DigitsOfNeg(0 - n)

(***************************************************************************)
(* strconv.ParseFloat(secret, 64) and fmt.Sprintf("%g", floatVal), for     *)
(* texts without an exponent or a hexadecimal prefix and with fewer than   *)
(* seven significant digits (the secrets Init draws for f32 and f64).      *)
(***************************************************************************)
LowerCase(ch) ==
  IF ch = "I" THEN "i" ELSE IF ch = "N" THEN "n" ELSE IF ch = "F" THEN "f"
  ELSE IF ch = "A" THEN "a" ELSE IF ch = "T" THEN "t"
  ELSE IF ch = "Y" THEN "y" ELSE ch

Lower(s) == [i \in 1..Len(s) |-> LowerCase(s[i])]

IsInf(s) == Lower(Unsigned(s)) \in {<<"i", "n", "f">>, <<"i", "n", "f", "i",
                                      "n", "i", "t", "y">>}

IsNaN(s) == Lower(s) = <<"n", "a", "n">>

IntPart(s) ==
  LET u == Unsigned(s)
      dot == Index(u, <<".">>, 1)
  IN IF dot = 0 THEN u ELSE SubSeq(u, 1, dot - 1)

FracPart(s) ==
  LET u == Unsigned(s)
      dot == Index(u, <<".">>, 1)
  IN IF dot = 0 THEN <<>> ELSE SubSeq(u, dot + 1, Len(u))

IsDecimal(s) ==
  /\ \A i \in 1..Len(IntPart(s)) : IntPart(s)[i] \in Digits
  /\ \A i \in 1..Len(FracPart(s)) : FracPart(s)[i] \in Digits
  /\ Len(IntPart(s)) + Len(FracPart(s)) > 0

ParseFloatOK(s) == IsInf(s) \/ IsNaN(s) \/ IsDecimal(s)

(* s up to its last character that is not "0"; <<>> if there is none *)
StripTrailingZeros(s) ==
  LET found == {j \in 1..Len(s) : s[j] # "0"} IN
    IF found = {} THEN <<>> ELSE SubSeq(s, 1, Greatest(found))

FormatG(s) ==
  LET sign == IF s # <<>> /\ s[1] = "-" THEN <<"-">> ELSE <<>>
      ip == StripLeadingZeros(IntPart(s))
      fp == StripTrailingZeros(FracPart(s))
  IN IF IsNaN(s) THEN <<"N", "a", "N">>
     ELSE IF IsInf(s) THEN (IF sign = <<>> THEN <<"+">> ELSE sign) \o <<"I",
                                        "n", "f">>
     ELSE sign \o (IF ip = <<>> THEN <<"0">> ELSE ip)
               \o (IF fp = <<>> THEN <<>> ELSE <<".">> \o fp)

(***************************************************************************)
(* convertSecretToWASMValue: (literal, error).                             *)
(***************************************************************************)
I32 == <<"i", "3", "2">>
I64 == <<"i", "6", "4">>
F32 == <<"f", "3", "2">>
F64 == <<"f", "6", "4">>

Kinds == {I32, I64, F32, F64}

Conv(text, err) == [text |-> text, err |-> err]

(* convertSecretToWASMValue with the hash fallback also for f32 and f64. *)
convertSecretFloatHash(secret, wasmType) ==
  IF wasmType = I32
  THEN IF ParseInt(secret, 32).ok
       THEN Conv(FormatParsed(ParseInt(secret, 32)), EmptyString)
       ELSE Conv(FormatInt32(simpleStringHash(secret)), EmptyString)
  ELSE IF wasmType = I64
  THEN IF ParseInt(secret, 64).ok
       THEN Conv(FormatParsed(ParseInt(secret, 64)), EmptyString)
       ELSE Conv(FormatInt32(simpleStringHash(secret)), EmptyString)
  ELSE IF wasmType \in {F32, F64}
  THEN IF ParseFloatOK(secret)
       THEN Conv(FormatG(secret), EmptyString)
       ELSE Conv(FormatInt32(simpleStringHash(secret)), EmptyString)
  ELSE Conv(<<>>, <<"unsupported WASM type">>)

(* convertSecretToWASMValue with the i64 case parsing at bitSize 32. *)
convertSecretI64As32(secret, wasmType) ==
  IF wasmType \in {I32, I64}
  THEN IF ParseInt(secret, 32).ok
       THEN Conv(FormatParsed(ParseInt(secret, 32)), EmptyString)
       ELSE Conv(FormatInt32(simpleStringHash(secret)), EmptyString)
  ELSE IF wasmType \in {F32, F64}
  THEN IF ParseFloatOK(secret)
       THEN Conv(FormatG(secret), EmptyString)
       ELSE Conv(<<>>, <<"cannot convert string secret to float type">>)
  ELSE Conv(<<>>, <<"unsupported WASM type">>)

convertSecretToWASMValue(secret, wasmType) ==
  IF wasmType = I32
  THEN IF ParseInt(secret, 32).ok
       THEN Conv(FormatParsed(ParseInt(secret, 32)), EmptyString)
       ELSE Conv(FormatInt32(simpleStringHash(secret)), EmptyString)
  ELSE IF wasmType = I64
  THEN IF ParseInt(secret, 64).ok
       THEN Conv(FormatParsed(ParseInt(secret, 64)), EmptyString)
       ELSE Conv(FormatInt32(simpleStringHash(secret)), EmptyString)
  ELSE IF wasmType \in {F32, F64}
  THEN IF ParseFloatOK(secret)
       THEN Conv(FormatG(secret), EmptyString)
       ELSE Conv(<<>>, <<"cannot convert string secret to float type">>)
  ELSE Conv(<<>>, <<"unsupported WASM type">>)

(***************************************************************************)
(* importPattern of injectSecretsIntoWAT,                                  *)
(*   \(import\s+"[^"]*"\s+"([^"]+)"\s+\(global\s+\$([^\s\)]+)\s+           *)
(*   (i32|i64|f32|f64)\)\)                                                 *)
(* Every repetition of the pattern is followed by a character outside its  *)
(* class, so the match at a position takes the longest run of each.        *)
(***************************************************************************)
Whitespace == {" ", "\t", "\n", "\f", "\r"}

Class(neg, set) == [neg |-> neg, set |-> set]

Space == Class(FALSE, Whitespace)
NotQuote == Class(TRUE, {"\""})
IdentChar == Class(TRUE, Whitespace \cup {")"})

InClass(ch, cl) == (ch \in cl.set) # cl.neg

(* Where the run of characters of class cl that starts at i ends. *)
RunEnd(s, i, cl) ==
  LET stops == {j \in i..Len(s) : ~InClass(s[j], cl)} IN
    IF stops = {} THEN Len(s) + 1 ELSE Least(stops)

ImportKw == <<"(", "i", "m", "p", "o", "r", "t">>
GlobalKw == <<"(", "g", "l", "o", "b", "a", "l">>
Quote == <<"\"">>

NoMatch ==
  [ok |-> FALSE, start |-> 0, end |-> 0, full |-> <<>>, name |-> <<>>,
   ident |-> <<>>, kind |-> <<>>]

MatchAt(s, i) ==
  LET a1 == i + Len(ImportKw)
      a2 == RunEnd(s, a1, Space)
      a3 == RunEnd(s, a2 + 1, NotQuote)
      a4 == RunEnd(s, a3 + 1, Space)
      a5 == RunEnd(s, a4 + 1, NotQuote)
      a6 == RunEnd(s, a5 + 1, Space)
      a7 == a6 + Len(GlobalKw)
      a8 == RunEnd(s, a7, Space)
      a9 == RunEnd(s, a8 + 1, IdentChar)
      a10 == RunEnd(s, a9, Space)
      a11 == a10 + 3
  IN IF /\ HasPrefixAt(s, i, ImportKw)
        /\ a2 > a1
        /\ HasPrefixAt(s, a2, Quote)
        /\ HasPrefixAt(s, a3, Quote)
        /\ a4 > a3 + 1
        /\ HasPrefixAt(s, a4, Quote)
        /\ a5 > a4 + 1
        /\ HasPrefixAt(s, a5, Quote)
        /\ a6 > a5 + 1
        /\ HasPrefixAt(s, a6, GlobalKw)
        /\ a8 > a7
        /\ HasPrefixAt(s, a8, <<"$">>)
        /\ a9 > a8 + 1
        /\ a10 > a9
        /\ \E k \in Kinds : HasPrefixAt(s, a10, k)
        /\ HasPrefixAt(s, a11, <<")", ")">>)
     THEN [ok |-> TRUE, start |-> i, end |-> a11 + 2,
           full |-> SubSeq(s, i, a11 + 1),
           name |-> SubSeq(s, a4 + 1, a5 - 1),
           ident |-> SubSeq(s, a8 + 1, a9 - 1),
           kind |-> SubSeq(s, a10, a10 + 2)]
     ELSE NoMatch

(* importPattern.FindAllStringSubmatch(watCode, -1), searching from i. *)
RECURSIVE FindAll(_, _)
FindAll(s, i) ==
  LET found == {j \in i..Len(s) : MatchAt(s, j).ok} IN
    IF found = {} THEN <<>>
    ELSE <<MatchAt(s, Least(found))>>
         \o FindAll(s, MatchAt(s, Least(found)).end)

(* line 187: the global definition that replaces an import. *)
GlobalDef(globalName, wasmType, wasmValue) ==
  <<"(", "g", "l", "o", "b", "a", "l", " ",
    "$">> \o globalName \o <<" ">> \o wasmType \o <<" ", "(">> \o wasmType
  \o <<".", "c", "o", "n", "s", "t", " ">> \o wasmValue \o <<")", ")">>

(***************************************************************************)
(* injectSecretsIntoWAT: (processed text, error).  secrets is a function   *)
(* from names to secret texts.                                             *)
(***************************************************************************)
Injected(text, err) == [text |-> text, err |-> err]

RECURSIVE InjectLoop(_, _, _)
InjectLoop(result, matches, secrets) ==
  IF matches = <<>> THEN Injected(result, EmptyString)
  ELSE LET m == Head(matches) IN
    IF m.name \in DOMAIN secrets
    THEN LET v == convertSecretToWASMValue(secrets[m.name], m.kind) IN
           IF v.err # EmptyString
           THEN Injected(<<>>, Errorf("failed to convert secret", v.err))
           ELSE InjectLoop(
                  ReplaceFirst(result, m.full,
                               GlobalDef(m.ident, m.kind, v.text)),
                  Tail(matches), secrets)
    ELSE InjectLoop(result, Tail(matches), secrets)

injectSecretsIntoWAT(watCode, secrets) ==
  InjectLoop(watCode, FindAll(watCode, 1), secrets)

(* isWATText *)
isWATText(input) ==
  /\ Len(input) > 0
  /\ input[1] = "("
  /\ Contains(input, <<"m", "o", "d", "u", "l", "e">>) \/ Contains(input,
                       <<"f", "u", "n", "c">>)

(* ExecuteWASM lines 67-77: the text handed to the compiler. *)
ProcessedWAT(wasmCode, secrets) ==
  IF DOMAIN secrets # {}
  THEN injectSecretsIntoWAT(wasmCode, secrets).text
  ELSE wasmCode

(***************************************************************************)
(* What ExecuteWASM makes of a request whose code is the text wasmCode:    *)
(* the template step is computed from the text; wasmtime refuses to        *)
(* instantiate, with no imports given, a module that still imports; the    *)
(* compiler and the rest of the runtime answer as env says.                *)
(***************************************************************************)
ProgramOf(wasmCode, secrets, env) ==
  [wat |-> isWATText(wasmCode),
   nsecrets |-> Cardinality(DOMAIN secrets),
   injectErr |-> injectSecretsIntoWAT(wasmCode, secrets).err # EmptyString,
   compileOK |-> env.compileOK,
   decodeOK |-> env.decodeOK,
   moduleOK |-> env.moduleOK,
   unresolved |-> FindAll(ProcessedWAT(wasmCode, secrets), 1) # <<>>,
   exported |-> env.exported,
   isFunc |-> env.isFunc,
   callOK |-> env.callOK,
   retInt32 |-> env.retInt32,
   value |-> env.value]

(***************************************************************************)
(* The inputs of the functions applied on their own.                       *)
(***************************************************************************)
RECURSIVE TextsUpTo(_, _)
TextsUpTo(alphabet, n) ==
  IF n = 0 THEN {<<>>}
  ELSE LET shorter == TextsUpTo(alphabet, n - 1) IN
         shorter \cup {Append(t, ch) : t \in shorter, ch \in alphabet}

SecretAlphabet == {"0", "5", "-", "+", ".", "a"}

ShortSecrets ==
  TextsUpTo(SecretAlphabet, MaxSecretLen)
    \cup {<<"7">>, <<"1", ".", "5">>, <<"h", "e", "l", "l", "o">>, <<"i",
            "n", "f">>, <<"n", "a", "n">>}

LongSecrets ==
  {<<"x", "f", "j", "f", "x", "t", "f">>, <<"s", "k", "-", "a", "b", "c",
     "1", "2", "3", "d", "e", "f", "4", "5", "6">>, <<"2", "1", "4", "7",
     "4", "8", "3", "6", "4", "7">>, <<"2", "1", "4", "7", "4", "8", "3",
     "6", "4", "8">>,
   <<"-", "2", "1", "4", "7", "4", "8", "3", "6", "4", "8">>, <<"-", "2",
     "1", "4", "7", "4", "8", "3", "6", "4", "9">>, <<"9", "2", "2", "3",
     "3", "7", "2", "0", "3", "6", "8", "5", "4", "7", "7", "5", "8", "0",
     "7">>,
   <<"9", "2", "2", "3", "3", "7", "2", "0", "3", "6", "8", "5", "4", "7",
     "7", "5", "8", "0", "8">>, <<"-", "9", "2", "2", "3", "3", "7", "2",
     "0", "3", "6", "8", "5", "4", "7", "7", "5", "8", "0", "8">>,
   <<"-", "9", "2", "2", "3", "3", "7", "2", "0", "3", "6", "8", "5", "4",
     "7", "7", "5", "8", "0", "9">>}

CoerceInputs ==
  [secret : ShortSecrets, kind : Kinds]
    \cup [secret : LongSecrets, kind : {I32, I64}]

DeclA == <<" ", "(", "i", "m", "p", "o", "r", "t", " ", "\"", "e", "n", "v",
           "\"", " ", "\"", "A", "\"", " ", "(", "g", "l", "o", "b", "a",
           "l", " ", "$", "A", " ", "i", "3", "2", ")", ")">>
DeclF == <<" ", "(", "i", "m", "p", "o", "r", "t", " ", "\"", "e", "n", "v",
           "\"", " ", "\"", "F", "\"", " ", "(", "g", "l", "o", "b", "a",
           "l", " ", "$", "F", " ", "f", "6", "4", ")", ")">>
FuncText == <<" ", "(", "f", "u", "n", "c", ")">>
(* An import named "Z(import ", then a block comment. *)
DeclZ == <<" ", "(", "i", "m", "p", "o", "r", "t", " ", "\"", "m", "\"", " ",
           "\"", "Z", "(", "i", "m", "p", "o", "r", "t", " ", "\"", " ", "(",
           "g", "l", "o", "b", "a", "l", " ", "$", "x", " ", "i", "3", "2",
           ")", ")", " ", "(", ";", "\"", " ", "\"", "A", "\"", " ", "(",
           "g", "l", "o", "b", "a", "l", " ", "$", "A", " ", "i", "3", "2",
           ")", ")", " ", ";", ")">>
(* An import of A whose module name is " (global $x i32)) (;". *)
DeclQ == <<" ", "(", "i", "m", "p", "o", "r", "t", " ", "\"", " ", "(", "g",
           "l", "o", "b", "a", "l", " ", "$", "x", " ", "i", "3", "2", ")",
           ")", " ", "(", ";", "\"", " ", "\"", "A", "\"", " ", "(", "g",
           "l", "o", "b", "a", "l", " ", "$", "A", " ", "i", "3", "2", ")",
           ")">>

Chunks == {DeclA, DeclF, FuncText, DeclZ, DeclQ}

RECURSIVE Concat(_)
Concat(ts) == IF ts = <<>> THEN <<>> ELSE Head(ts) \o Concat(Tail(ts))

Sources ==
  {<<"(", "m", "o", "d", "u", "l", "e">> \o Concat(cs) \o <<")">> :
     cs \in UNION {[1..n -> Chunks] : n \in 0..MaxChunks}}

SecretNames == {<<"A">>, <<"F">>}
SecretValues == {<<"5">>, <<"a">>}

SecretMaps == UNION {[D -> SecretValues] : D \in SUBSET SecretNames}

EnvOK ==
  [compileOK |-> TRUE, decodeOK |-> TRUE, moduleOK |-> TRUE,
   exported |-> TRUE, isFunc |-> TRUE, callOK |-> TRUE, retInt32 |-> TRUE,
   value |-> 49]

Envs ==
  { EnvOK,
    [EnvOK EXCEPT !.compileOK = FALSE],
    [EnvOK EXCEPT !.moduleOK = FALSE],
    [EnvOK EXCEPT !.exported = FALSE],
    [EnvOK EXCEPT !.isFunc = FALSE],
    [EnvOK EXCEPT !.callOK = FALSE],
    [EnvOK EXCEPT !.retInt32 = FALSE] }

(***************************************************************************)
(* The functions applied on their own: the relay and the enclave's         *)
(* handler stay in their initial state.                                    *)
(***************************************************************************)
FunInit ==
  /\ SysInit
  /\ ~enclaveUp
  /\ ~pipelining
  /\ \/ /\ fpc = "coerce"
        /\ fin \in CoerceInputs
     \/ /\ fpc = "inject"
        /\ fin \in [source : Sources, secrets : SecretMaps]
  /\ fout = NoFun
  /\ ExecOff

Coerce ==
  /\ fpc = "coerce"
  /\ fpc' = "coerced"
  /\ fout' = convertSecretToWASMValue(fin.secret, fin.kind)
  /\ UNCHANGED <<fin, sysVars, execVars>>

Inject ==
  /\ fpc = "inject"
  /\ fpc' = "injected"
  /\ fout' = [inj |-> injectSecretsIntoWAT(fin.source, fin.secrets),
              env |-> EnvOK,
              run |-> Ret(0, EmptyString)]
  /\ UNCHANGED <<fin, sysVars, execVars>>

Execute ==
  /\ fpc = "injected"
  /\ fpc' = "executed"
  /\ \E env \in Envs :
       fout' = [fout EXCEPT
                  !.env = env,
                  !.run = ExecuteWASM(
                            ProgramOf(fin.source, fin.secrets, env))]
  /\ UNCHANGED <<fin, sysVars, execVars>>

FunNext == Coerce \/ Inject \/ Execute

FunSpec == FunInit /\ [][FunNext]_vars

(***************************************************************************)
(* base64DecodeWASM: blanks removed, then base64 (encoding/base64's        *)
(* StdEncoding skips "\r" and wants whole, padded groups of four), then    *)
(* hexadecimal.  The bytes are kept as the text and its encoding.          *)
(***************************************************************************)
Range(f) == {f[i] : i \in DOMAIN f}

Remove(s, chars) == SelectSeq(s, LAMBDA ch : ch \notin chars)

Base64Chars ==
  Range(<<"A", "B", "C", "D", "E", "F", "G", "H", "I", "J", "K", "L", "M",
          "N", "O", "P", "Q", "R", "S", "T", "U", "V", "W", "X", "Y", "Z",
          "a", "b", "c", "d", "e", "f", "g", "h", "i", "j", "k", "l", "m",
          "n", "o", "p", "q", "r", "s", "t", "u", "v", "w", "x", "y", "z",
          "0", "1", "2", "3", "4", "5", "6", "7", "8", "9", "+", "/">>)

HexChars == Range(<<"0", "1", "2", "3", "4", "5", "6", "7", "8", "9", "a",
                    "b", "c", "d", "e", "f", "A", "B", "C", "D", "E", "F">>)

Base64OK(cleaned) ==
  LET t == Remove(cleaned, {"\r"})
      n == Len(t)
  IN /\ n % 4 = 0
     /\ \A i \in 1..(n - 2) : t[i] \in Base64Chars
     /\ n > 0 => \/ t[n - 1] \in Base64Chars /\ t[n] \in Base64Chars \cup {"="}
                 \/ t[n - 1] = "=" /\ t[n] = "="

HexOK(cleaned) ==
  /\ Len(cleaned) % 2 = 0
  /\ \A i \in 1..Len(cleaned) : cleaned[i] \in HexChars

base64DecodeWASM(encoded) ==
  LET cleaned == Remove(encoded, {" ", "\n", "\t"}) IN
    IF Base64OK(cleaned)
    THEN [ok |-> TRUE, bytes |-> Decoded("base64", Remove(cleaned, {"\r"}))]
    ELSE IF HexOK(cleaned)
         THEN [ok |-> TRUE, bytes |-> Decoded("hex", cleaned)]
         ELSE [ok |-> FALSE, bytes |-> NoBytes]

(***************************************************************************)
(* The external compiler and runtime, as functions of what they are        *)
(* given.  wat2wasm accepts a text that is one parenthesised module and    *)
(* has no float literal in Go's spelling; the binary of a text is that     *)
(* text compiled.                                                          *)
(***************************************************************************)
Count(s, ch) == Cardinality({i \in 1..Len(s) : s[i] = ch})

ModuleKw == <<"(", "m", "o", "d", "u", "l", "e">>

Wat2WasmAccepts(text) ==
  /\ HasPrefixAt(text, 1, ModuleKw)
  /\ Count(text, "(") = Count(text, ")")
  /\ ~Contains(text, <<"I", "n", "f">>)
  /\ ~Contains(text, <<"N", "a", "N">>)

(* binaries of the module with no content: base64, and hexadecimal with a  *)
(* type section with no entries                                            *)
EmptyModuleBase64 == <<"A", "G", "F", "z", "b", "Q", "E", "A", "A", "A", "A",
                       "=">>

EmptyModuleHex == <<"0", "0", "6", "1", "7", "3", "6", "d", "0", "1", "0",
                    "0", "0", "0", "0", "0", "0", "1", "0", "1", "0", "0">>

(* wasmtime.NewModule accepts the bytes *)
ModuleAccepts(bytes) ==
  \/ bytes.kind = "wasm"
  \/ bytes = Decoded("base64", EmptyModuleBase64)
  \/ bytes = Decoded("hex", EmptyModuleHex)

(* wasmtime.NewInstance with no imports given: an import is left *)
UnresolvedImports(bytes) ==
  bytes.kind = "wasm" /\ FindAll(bytes.of, 1) # <<>>

ExportOf(kw, name) == <<"(">> \o kw \o <<" ", "(", "e", "x", "p", "o", "r",
                        "t", " ", "\"">> \o name \o <<"\"", ")">>

(* instance.GetExport(store, functionName) *)
Exported(bytes, name) ==
  /\ bytes.kind = "wasm"
  /\ \E kw \in {<<"f", "u", "n", "c">>, <<"m", "e", "m", "o", "r", "y">>,
                  <<"g", "l", "o", "b", "a", "l">>} :
       Contains(bytes.of, ExportOf(kw, name))

(* exportedFunc.Func() *)
ExportedFunc(bytes, name) ==
  bytes.kind = "wasm" /\ Contains(bytes.of, ExportOf(<<"f", "u", "n", "c">>,
                                                       name))

(* the value of a decimal literal of up to ten digits, to the int32 range *)
RECURSIVE NegValue(_)
NegValue(digits) ==
  IF digits = <<>> THEN 0
  ELSE NegValue(SubSeq(digits, 1, Len(digits) - 1)) * 10
       - DigitValue(digits[Len(digits)])

LiteralValue(lit) ==
  IF lit # <<>> /\ lit[1] = "-" THEN NegValue(Tail(lit))
  ELSE 0 - NegValue(lit)

(* the literal of the first i32.const of a text *)
ConstKw == <<"(", "i", "3", "2", ".", "c", "o", "n", "s", "t", " ">>

FirstConst(text) ==
  LET i == Index(text, ConstKw, 1) + Len(ConstKw) IN
    SubSeq(text, i, RunEnd(text, i, Class(TRUE, {")"})) - 1)

(***************************************************************************)
(* wasmFunc.Call on the instance in store: what the functions of the       *)
(* programs below do.  n is the mutable global of the instance.            *)
(***************************************************************************)
Called(ok, int32, value, n) ==
  [ok |-> ok, int32 |-> int32, value |-> value, n |-> n]

Call(bytes, name, args, n) ==
  IF name = <<"s", "q", "u", "a", "r", "e">>
  THEN IF Len(args) = 1 THEN Called(TRUE, TRUE, args[1] * args[1], n)
       ELSE Called(FALSE, FALSE, 0, n)
  ELSE IF name = <<"b", "u", "m", "p">> THEN Called(Len(args) = 0, TRUE,
                   n + 1, n + 1)
  ELSE IF name = <<"b", "o", "o", "m">> THEN Called(FALSE, FALSE, 0, n)
  ELSE IF name = <<"h", "a", "l", "f">> THEN Called(Len(args) = 0, FALSE, 0,
                   n)
  ELSE IF name = <<"g", "e", "t">>
  THEN Called(Len(args) = 0, TRUE, LiteralValue(FirstConst(bytes.of)), n)
  ELSE Called(Len(args) = 0, TRUE, 0, n)

(***************************************************************************)
(* The requests a peer of the enclave sends.                               *)
(***************************************************************************)
SquareText ==
  <<"(", "m", "o", "d", "u", "l", "e", " ", "(", "m", "e", "m", "o", "r",
    "y", " ", "(", "e", "x", "p", "o", "r", "t", " ", "\"", "m", "e", "m",
    "\"", ")", " ", "1", ")", " ", "(", "f", "u", "n", "c", " ", "(", "e",
    "x", "p", "o", "r", "t", " ", "\"", "s", "q", "u", "a", "r", "e", "\"",
    ")", " ", "(", "p", "a", "r", "a", "m", " ", "i", "3", "2", ")", " ",
    "(", "r", "e", "s", "u", "l", "t", " ", "i", "3", "2", ")", " ", "l",
    "o", "c", "a", "l", ".", "g", "e", "t", " ", "0", " ", "l", "o", "c",
    "a", "l", ".", "g", "e", "t", " ", "0", " ", "i", "3", "2", ".", "m",
    "u", "l", ")", ")">>

CounterText ==
  <<"(", "m", "o", "d", "u", "l", "e", " ", "(", "g", "l", "o", "b", "a",
    "l", " ", "$", "n", " ", "(", "m", "u", "t", " ", "i", "3", "2", ")",
    " ", "(", "i", "3", "2", ".", "c", "o", "n", "s", "t", " ", "0", ")",
    ")", " ", "(", "f", "u", "n", "c", " ", "(", "e", "x", "p", "o", "r",
    "t", " ", "\"", "b", "u", "m", "p", "\"", ")", " ", "(", "r", "e", "s",
    "u", "l", "t", " ", "i", "3", "2", ")", " ", "(", "g", "l", "o", "b",
    "a", "l", ".", "s", "e", "t", " ", "$", "n", " ", "(", "i", "3", "2",
    ".", "a", "d", "d", " ", "(", "g", "l", "o", "b", "a", "l", ".", "g",
    "e", "t", " ", "$", "n", ")", " ", "(", "i", "3", "2", ".", "c", "o",
    "n", "s", "t", " ", "1", ")", ")", ")", " ", "g", "l", "o", "b", "a",
    "l", ".", "g", "e", "t", " ", "$", "n", ")", ")">>

TrapText == <<"(", "m", "o", "d", "u", "l", "e", " ", "(", "f", "u", "n",
              "c", " ", "(", "e", "x", "p", "o", "r", "t", " ", "\"", "b",
              "o", "o", "m", "\"", ")", " ", "(", "r", "e", "s", "u", "l",
              "t", " ", "i", "3", "2", ")", " ", "u", "n", "r", "e", "a",
              "c", "h", "a", "b", "l", "e", ")", ")">>

HalfText == <<"(", "m", "o", "d", "u", "l", "e", " ", "(", "f", "u", "n",
              "c", " ", "(", "e", "x", "p", "o", "r", "t", " ", "\"", "h",
              "a", "l", "f", "\"", ")", " ", "(", "r", "e", "s", "u", "l",
              "t", " ", "f", "6", "4", ")", " ", "f", "6", "4", ".", "c",
              "o", "n", "s", "t", " ", "0", ".", "5", ")", ")">>

GetText ==
  <<"(", "m", "o", "d", "u", "l", "e", " ", "(", "i", "m", "p", "o", "r",
    "t", " ", "\"", "e", "n", "v", "\"", " ", "\"", "A", "\"", " ", "(", "g",
    "l", "o", "b", "a", "l", " ", "$", "A", " ", "i", "3", "2", ")", ")",
    " ", "(", "f", "u", "n", "c", " ", "(", "e", "x", "p", "o", "r", "t",
    " ", "\"", "g", "e", "t", "\"", ")", " ", "(", "r", "e", "s", "u", "l",
    "t", " ", "i", "3", "2", ")", " ", "g", "l", "o", "b", "a", "l", ".",
    "g", "e", "t", " ", "$", "A", ")", ")">>

FloatText ==
  <<"(", "m", "o", "d", "u", "l", "e", " ", "(", "i", "m", "p", "o", "r",
    "t", " ", "\"", "e", "n", "v", "\"", " ", "\"", "A", "\"", " ", "(", "g",
    "l", "o", "b", "a", "l", " ", "$", "A", " ", "i", "3", "2", ")", ")",
    " ", "(", "i", "m", "p", "o", "r", "t", " ", "\"", "e", "n", "v", "\"",
    " ", "\"", "F", "\"", " ", "(", "g", "l", "o", "b", "a", "l", " ", "$",
    "F", " ", "f", "6", "4", ")", ")", " ", "(", "f", "u", "n", "c", " ",
    "(", "e", "x", "p", "o", "r", "t", " ", "\"", "g", "e", "t", "\"", ")",
    " ", "(", "r", "e", "s", "u", "l", "t", " ", "i", "3", "2", ")", " ",
    "g", "l", "o", "b", "a", "l", ".", "g", "e", "t", " ", "$", "A", ")",
    ")">>

BadText == <<"(", "m", "o", "d", "u", "l", "e", " ", "(", "f", "u", "n", "c">>

Secrets(name, value) == [k \in {name} |-> value]

NoSecrets == <<>>

SquareRequest == ExecRequest(SquareText, <<"s", "q", "u", "a", "r", "e">>,
                                           <<7>>, NoSecrets)

GetRequest == ExecRequest(GetText, <<"g", "e", "t">>, <<>>, Secrets(<<"A">>,
                                     <<"5">>))

NamedRequests ==
  { SquareRequest,
    ExecRequest(SquareText, <<"s", "q", "u", "a", "r", "e">>, <<>>,
                              NoSecrets),
    ExecRequest(SquareText, <<"m", "i", "s", "s", "i", "n", "g", "_", "f",
                              "n">>, <<7>>, NoSecrets),
    ExecRequest(SquareText, <<"m", "e", "m">>, <<7>>, NoSecrets),
    ExecRequest(CounterText, <<"b", "u", "m", "p">>, <<>>, NoSecrets),
    ExecRequest(TrapText, <<"b", "o", "o", "m">>, <<>>, NoSecrets),
    ExecRequest(HalfText, <<"h", "a", "l", "f">>, <<>>, NoSecrets),
    GetRequest,
    ExecRequest(GetText, <<"g", "e", "t">>, <<>>, Secrets(<<"A">>, <<"a">>)),
    ExecRequest(GetText, <<"g", "e", "t">>, <<>>, NoSecrets),
    ExecRequest(GetText, <<"g", "e", "t">>, <<>>, Secrets(<<"F">>, <<"5">>)),
    ExecRequest(FloatText, <<"g", "e", "t">>, <<>>,
                             [k \in SecretNames |-> <<"5">>]),
    ExecRequest(FloatText, <<"g", "e", "t">>, <<>>,
                             [k \in SecretNames |-> <<"a">>]),
    ExecRequest(BadText, <<"s", "q", "u", "a", "r", "e">>, <<7>>, NoSecrets),
    ExecRequest(EmptyModuleBase64, <<"s", "q", "u", "a", "r", "e">>, <<7>>,
                                     NoSecrets),
    ExecRequest(EmptyModuleHex, <<"s", "q", "u", "a", "r", "e">>, <<7>>,
                                  NoSecrets),
    ExecRequest(<<"0", "0", "6", "1", "7", "3", "6", "d", "0", "1", "0", "0",
                  "0", "0", "0", "0">>, <<"s", "q", "u", "a", "r", "e">>,
                  <<7>>, NoSecrets),
    ExecRequest(<<"!">>, <<"s", "q", "u", "a", "r", "e">>, <<7>>, NoSecrets),
    ExecRequest(<<>>, <<"s", "q", "u", "a", "r", "e">>, <<7>>, NoSecrets) }

TemplateRequests ==
  {ExecRequest(s, <<"g", "e", "t">>, <<>>, m) : s \in Sources,
                 m \in SecretMaps}

(* The requests sent when several connections are served at once. *)
FewRequests == {SquareRequest, GetRequest}

(***************************************************************************)
(* handleConnection and the ExecuteWASM call it makes, one action per      *)
(* blocking step, for the connection t.                                    *)
(***************************************************************************)
At(t, pos) == hc[t].pc = pos

Goto(t, new) == hc' = [hc EXCEPT ![t] = new]

CompileError(err) == Ret(0, Errorf("failed to compile WAT to WASM", err))

(* lines 357-362: decoder.Decode(&wasmReq); the peer closes after its last *)
(* request, and the handler returns                                        *)
XDecode(t) ==
  /\ At(t, "decode")
  /\ IF pending[t] # <<>>
     THEN /\ Goto(t, [hc[t] EXCEPT !.pc = "begin", !.wasmReq = Head(pending[t])])
          /\ pending' = [pending EXCEPT ![t] = Tail(@)]
     ELSE /\ Goto(t, [hc[t] EXCEPT !.pc = "closed"])
          /\ UNCHANGED pending
  /\ UNCHANGED <<files, responses, ncompiles, ncalls, ioFaults, sysVars,
                 funVars>>

(* line 51 *)
NewStore == [made |-> TRUE, instance |-> FALSE, n |-> 0]

(* lines 51-96: the new store, the template step or the decoding, up to    *)
(* the call of compileWATToWASM or of wasmtime.NewModule                   *)
XBegin(t) ==
  LET rq == hc[t].wasmReq
      inj == injectSecretsIntoWAT(rq.code, rq.secrets)
      dec == base64DecodeWASM(rq.code)
      h == [hc[t] EXCEPT !.store = NewStore]
  IN /\ At(t, "begin")
     /\ IF isWATText(rq.code)
        THEN IF DOMAIN rq.secrets # {} /\ inj.err # EmptyString
             THEN /\ Goto(t, [h EXCEPT !.pc = "respond",
                                !.ret = Ret(0, Errorf("failed to inject secrets", inj.err))])
                  /\ UNCHANGED ncompiles
             ELSE /\ Goto(t, [h EXCEPT !.pc = "write",
                                !.processedWAT = ProcessedWAT(rq.code, rq.secrets)])
                  /\ ncompiles' = [ncompiles EXCEPT ![t] = @ + 1]
        ELSE /\ IF dec.ok
                THEN Goto(t, [h EXCEPT !.pc = "module", !.wasmBytes = dec.bytes])
                ELSE Goto(t, [h EXCEPT !.pc = "respond",
                                !.ret = Ret(0, <<"failed to decode WASM bytecode">>)])
             /\ UNCHANGED ncompiles
     /\ UNCHANGED <<files, pending, responses, ncalls, ioFaults, sysVars,
                    funVars>>

(* what ioutil.WriteFile leaves at a path when it fails: the path as it    *)
(* was when the open failed, a created and truncated file when the write   *)
(* failed                                                                  *)
FailedWrite(file) == {file, File(<<>>)}

(* XWriteFile that leaves a file already at the path as it is. *)
XWriteFileKeepExisting(t) ==
  /\ At(t, "write")
  /\ \/ /\ files' = [files EXCEPT !.watFile =
                        IF @.exists THEN @ ELSE File(hc[t].processedWAT)]
        /\ Goto(t, [hc[t] EXCEPT !.pc = "wat2wasm", !.defers = {"watFile"}])
     \/ /\ ioFaults
        /\ \E left \in FailedWrite(files.watFile) :
             files' = [files EXCEPT !.watFile = left]
        /\ Goto(t, [hc[t] EXCEPT !.pc = "respond", !.faulted = TRUE,
                      !.ret = CompileError(<<"failed to write WAT file">>)])
  /\ UNCHANGED <<pending, responses, ncompiles, ncalls, ioFaults, sysVars,
                 funVars>>

(* lines 258-261: ioutil.WriteFile(watFile, ...), and the first defer *)
XWriteFile(t) ==
  /\ At(t, "write")
  /\ \/ /\ files' = [files EXCEPT !.watFile = File(hc[t].processedWAT)]
        /\ Goto(t, [hc[t] EXCEPT !.pc = "wat2wasm", !.defers = {"watFile"}])
     \/ /\ ioFaults
        /\ \E left \in FailedWrite(files.watFile) :
             files' = [files EXCEPT !.watFile = left]
        /\ Goto(t, [hc[t] EXCEPT !.pc = "respond", !.faulted = TRUE,
                      !.ret = CompileError(<<"failed to write WAT file">>)])
  /\ UNCHANGED <<pending, responses, ncompiles, ncalls, ioFaults, sysVars,
                 funVars>>

(* lines 264-268: wat2wasm reads watFile; it fails on a missing file and   *)
(* on a text it does not accept, and the function returns                  *)
XWat2Wasm(t) ==
  /\ At(t, "wat2wasm")
  /\ IF files.watFile.exists /\ Wat2WasmAccepts(files.watFile.data)
     THEN Goto(t, [hc[t] EXCEPT !.pc = "emit", !.input = files.watFile.data])
     ELSE Goto(t, [hc[t] EXCEPT !.pc = "cleanup",
                     !.ret = CompileError(<<"wat2wasm compilation failed">>)])
  /\ UNCHANGED <<files, pending, responses, ncompiles, ncalls, ioFaults,
                 sysVars, funVars>>

(* lines 264-269: wat2wasm writes wasmFile and exits; the second defer *)
XWat2WasmEmit(t) ==
  /\ At(t, "emit")
  /\ files' = [files EXCEPT !.wasmFile = File(Compiled(hc[t].input))]
  /\ Goto(t, [hc[t] EXCEPT !.pc = "read", !.defers = @ \cup {"wasmFile"}])
  /\ UNCHANGED <<pending, responses, ncompiles, ncalls, ioFaults, sysVars,
                 funVars>>

(* lines 272-277: ioutil.ReadFile(wasmFile) *)
XReadFile(t) ==
  /\ At(t, "read")
  /\ \/ /\ files.wasmFile.exists
        /\ Goto(t, [hc[t] EXCEPT !.pc = "cleanup",
                      !.wasmBytes = files.wasmFile.data])
     \/ /\ ~files.wasmFile.exists \/ ioFaults
        /\ Goto(t, [hc[t] EXCEPT !.pc = "cleanup",
                      !.faulted = files.wasmFile.exists,
                      !.ret = CompileError(<<"failed to read compiled WASM file">>)])
  /\ UNCHANGED <<files, pending, responses, ncompiles, ncalls, ioFaults,
                 sysVars, funVars>>

(* lines 261 and 269: the deferred os.Remove calls, as compileWATToWASM    *)
(* returns                                                                 *)
XCleanup(t) ==
  /\ At(t, "cleanup")
  /\ files' = [p \in DOMAIN files |->
                 IF p \in hc[t].defers THEN NoFile ELSE files[p]]
  /\ Goto(t, [hc[t] EXCEPT !.defers = {},
                !.pc = IF hc[t].ret.err # EmptyString THEN "respond"
                       ELSE "module"])
  /\ UNCHANGED <<pending, responses, ncompiles, ncalls, ioFaults, sysVars,
                 funVars>>

(* lines 86, 95, 98-100: wasmtime.NewModule *)
XNewModule(t) ==
  /\ At(t, "module")
  /\ IF ModuleAccepts(hc[t].wasmBytes)
     THEN Goto(t, [hc[t] EXCEPT !.pc = "instantiate"])
     ELSE Goto(t, [hc[t] EXCEPT !.pc = "respond",
                     !.ret = Ret(0, <<"failed to create WASM module">>)])
  /\ UNCHANGED <<files, pending, responses, ncompiles, ncalls, ioFaults,
                 sysVars, funVars>>

(* lines 106-109: wasmtime.NewInstance with no imports *)
XNewInstance(t) ==
  /\ At(t, "instantiate")
  /\ IF UnresolvedImports(hc[t].wasmBytes)
     THEN Goto(t, [hc[t] EXCEPT !.pc = "respond",
                     !.ret = Ret(0, <<"failed to create WASM instance">>)])
     ELSE Goto(t, [hc[t] EXCEPT !.pc = "lookup", !.store.instance = TRUE,
                     !.store.n = 0])
  /\ UNCHANGED <<files, pending, responses, ncompiles, ncalls, ioFaults,
                 sysVars, funVars>>

(* XGetExport without the check of exportedFunc.Func(). *)
XGetExportNoFuncCheck(t) ==
  /\ At(t, "lookup")
  /\ IF ~Exported(hc[t].wasmBytes, hc[t].wasmReq.fn)
     THEN Goto(t, [hc[t] EXCEPT !.pc = "respond",
                     !.ret = Ret(0, <<"function not found in WASM module">>)])
     ELSE Goto(t, [hc[t] EXCEPT !.pc = "call"])
  /\ UNCHANGED <<files, pending, responses, ncompiles, ncalls, ioFaults,
                 sysVars, funVars>>

(* lines 121-129: instance.GetExport and exportedFunc.Func *)
XGetExport(t) ==
  /\ At(t, "lookup")
  /\ IF ~Exported(hc[t].wasmBytes, hc[t].wasmReq.fn)
     THEN Goto(t, [hc[t] EXCEPT !.pc = "respond",
                     !.ret = Ret(0, <<"function not found in WASM module">>)])
     ELSE IF ~ExportedFunc(hc[t].wasmBytes, hc[t].wasmReq.fn)
     THEN Goto(t, [hc[t] EXCEPT !.pc = "respond",
                     !.ret = Ret(0, <<"is not a function">>)])
     ELSE Goto(t, [hc[t] EXCEPT !.pc = "call"])
  /\ UNCHANGED <<files, pending, responses, ncompiles, ncalls, ioFaults,
                 sysVars, funVars>>

(* lines 134-153: wasmFunc.Call and the conversion of its result *)
XCall(t) ==
  LET c == Call(hc[t].wasmBytes, hc[t].wasmReq.fn, hc[t].wasmReq.args,
                hc[t].store.n)
  IN /\ At(t, "call")
     /\ ncalls' = [ncalls EXCEPT ![t] = @ + 1]
     /\ Goto(t, [hc[t] EXCEPT
                   !.pc = "respond",
                   !.store.n = c.n,
                   !.ret = IF ~c.ok THEN Ret(0, <<"WASM function call failed">>)
                           ELSE IF c.int32 THEN Ret(c.value, EmptyString)
                           ELSE Ret(0, <<"unexpected return type from WASM function">>)])
     /\ UNCHANGED <<files, pending, responses, ncompiles, ioFaults, sysVars,
                    funVars>>

Response(request, response, faulted) ==
  [req |-> request, resp |-> response, faulted |-> faulted]

(* lines 371-389: the response is built and encoded; the loop goes on *)
XRespond(t) ==
  /\ At(t, "respond")
  /\ responses' = [responses EXCEPT ![t] =
       Append(@, Response(hc[t].wasmReq, HandleResponse(hc[t].ret, NoReq),
                          hc[t].faulted))]
  /\ Goto(t, HcDecode)
  /\ UNCHANGED <<files, pending, ncompiles, ncalls, ioFaults, sysVars,
                 funVars>>

(***************************************************************************)
(* The enclave serving: several connections with one request each, or one  *)
(* connection on which the peer sends one template request, or the same    *)
(* request MaxRuns times.                                                  *)
(***************************************************************************)
Repeat(r) == [i \in 1..MaxRuns |-> r]

Only(requests) == [t \in Tasks |-> IF t = 1 THEN requests ELSE <<>>]

ExecInit ==
  /\ SysInit
  /\ ~enclaveUp
  /\ ~pipelining
  /\ fpc = "off"
  /\ fin = NoFun
  /\ fout = NoFun
  /\ files = NoFiles
  /\ \/ /\ ioFaults = FALSE
        /\ pending \in [Tasks -> {<<r>> : r \in FewRequests}]
     \/ /\ ioFaults \in BOOLEAN
        /\ \E r \in NamedRequests : pending = Only(Repeat(r))
     \/ /\ ioFaults = FALSE
        /\ \E r \in TemplateRequests : pending = Only(<<r>>)
  /\ hc = [t \in Tasks |-> IF pending[t] = <<>> THEN HcOff ELSE HcDecode]
  /\ responses = [t \in Tasks |-> <<>>]
  /\ ncompiles = [t \in Tasks |-> 0]
  /\ ncalls = [t \in Tasks |-> 0]

ExecNext ==
  \/ \E t \in Tasks : XDecode(t)
  \/ \E t \in Tasks : XBegin(t)
  \/ \E t \in Tasks : XWriteFile(t)
  \/ \E t \in Tasks : XWat2Wasm(t)
  \/ \E t \in Tasks : XWat2WasmEmit(t)
  \/ \E t \in Tasks : XReadFile(t)
  \/ \E t \in Tasks : XCleanup(t)
  \/ \E t \in Tasks : XNewModule(t)
  \/ \E t \in Tasks : XNewInstance(t)
  \/ \E t \in Tasks : XGetExport(t)
  \/ \E t \in Tasks : XCall(t)
  \/ \E t \in Tasks : XRespond(t)

ExecSpec == ExecInit /\ [][ExecNext]_vars

(***************************************************************************)
(* One client connection at the level of the JSON documents: what the      *)
(* decoders and encoders of the relay, the enclave and the client do to    *)
(* the fields of WASMRequest and WASMResponse.  A member of a document is  *)
(* absent, null, or a value of some JSON type.                             *)
(***************************************************************************)
Absent == [t |-> "absent"]

Null == [t |-> "null"]

Json(t, v) == [t |-> t, v |-> v]

(* a Go slice or map: nil, or a value (possibly empty) *)
Nil == [nil |-> TRUE, v |-> <<>>]

NonNil(v) == [nil |-> FALSE, v |-> v]

(* the zero value of `var req WASMRequest` and of `var response` *)
ZeroRequest == ExecRequest(<<>>, <<>>, Nil, Nil)

WireResponse(result, error) == [result |-> result, error |-> error]

ZeroResponse == WireResponse(0, EmptyString)

(* encoding/json storing an object into a map that already has entries *)
MergeMap(old, new) ==
  [k \in DOMAIN old \cup DOMAIN new |->
     IF k \in DOMAIN new THEN new[k] ELSE old[k]]

(* the JSON types decoder.Decode accepts for each field of WASMRequest *)
RequestTypeOK(m) ==
  /\ m.wasm_code.t \in {"absent", "null", "string"}
  /\ m.function_name.t \in {"absent", "null", "string"}
  /\ m.args.t \in {"absent", "null", "array"}
  /\ m.secrets.t \in {"absent", "null", "object"}

(* decoder.Decode(&req): an absent member leaves the field, null leaves a  *)
(* string and clears a slice or map, a value is stored; a member that is   *)
(* not a field of the struct is skipped                                    *)
DecodeRequest(dst, m) ==
  [ok |-> RequestTypeOK(m),
   v |-> ExecRequest(
     IF m.wasm_code.t = "string" THEN m.wasm_code.v ELSE dst.code,
     IF m.function_name.t = "string" THEN m.function_name.v ELSE dst.fn,
     IF m.args.t = "array" THEN NonNil(m.args.v)
     ELSE IF m.args.t = "null" THEN Nil ELSE dst.args,
     IF m.secrets.t = "object"
     THEN NonNil(MergeMap(dst.secrets.v, m.secrets.v))
     ELSE IF m.secrets.t = "null" THEN Nil ELSE dst.secrets)]

(* encoder.Encode(req): every field is written, a nil slice or map as null *)
EncodeRequest(r) ==
  [wasm_code |-> Json("string", r.code),
   function_name |-> Json("string", r.fn),
   args |-> IF r.args.nil THEN Null ELSE Json("array", r.args.v),
   secrets |-> IF r.secrets.nil THEN Null ELSE Json("object", r.secrets.v),
   other |-> Absent]

(* encoder.Encode(response): error has omitempty *)
EncodeResponse(r) ==
  [result |-> Json("number", r.result),
   error |-> IF r.error = EmptyString THEN Absent ELSE Json("string", r.error)]

(* decoder.Decode(&response) into a zero WASMResponse *)
DecodeResponse(m) ==
  WireResponse(IF m.result.t = "number" THEN m.result.v ELSE 0,
               IF m.error.t = "string" THEN m.error.v ELSE EmptyString)

Square == <<"s", "q", "u", "a", "r", "e">>

(* the documents a client writes: members present or not, null, of the     *)
(* field's type or of another, and a member the struct does not have       *)
ClientMessages ==
  [wasm_code : {Absent, Json("string", SquareText)},
   function_name : {Absent, Null, Json("string", Square)},
   args : {Absent, Null, Json("array", <<>>), Json("array", <<7>>),
           Json("string", Square)},
   secrets : {Absent, Null, Json("object", NoSecrets),
              Json("object", Secrets(<<"A">>, <<"5">>))},
   other : {Absent, Json("number", 1)}]

(* handleConnection's response to a decoded request: ExecuteWASM on its    *)
(* four fields, by the step that fails                                     *)
Answer(r) ==
  IF r.code # SquareText
  THEN WireResponse(0, Errorf("WASM execution failed",
                             <<"failed to decode WASM bytecode">>))
  ELSE IF r.fn # Square
  THEN WireResponse(0, Errorf("WASM execution failed",
                             <<"function not found in WASM module">>))
  ELSE IF r.args.v # <<7>>
  THEN WireResponse(0, Errorf("WASM execution failed",
                             <<"WASM function call failed">>))
  ELSE WireResponse(49, EmptyString)

(* main has not yet connected; the enclave is listening *)
WireInit ==
  /\ mainPc = "start"
  /\ enclaveUp = TRUE
  /\ enclaveConn = 0
  /\ enclaveConnected = FALSE
  /\ writer = 0
  /\ readers = {}
  /\ toEnc = <<>>
  /\ fromEnc = <<>>
  /\ chanBroken = FALSE
  /\ epc = "idle"
  /\ ereq = NoReq
  /\ active = {1}
  /\ progSet = FewPrograms
  /\ pipelining = FALSE
  /\ sent = [c \in Conns |-> 0]
  /\ clientOpen = [c \in Conns |-> TRUE]
  /\ inbox = [c \in Conns |-> <<>>]
  /\ last = [c \in Conns |-> Out(0, NoId, ZeroResponse)]
  /\ ndelivered = [c \in Conns |-> 0]
  /\ pc = [c \in Conns |-> "decode"]
  /\ req = [c \in Conns |-> ZeroRequest]
  /\ resp = [c \in Conns |-> ZeroResponse]
  /\ nread = [c \in Conns |-> 0]
  /\ nwritten = [c \in Conns |-> 0]
  /\ fresh = Conns
  /\ dials = 0
  /\ inflight = {}
  /\ fpc = "off"
  /\ fin = NoFun
  /\ fout = NoFun
  /\ ExecOff

(* wasm-client lines 94-106: the request document, written once the        *)
(* previous response has been read                                         *)
WClientSend(c) ==
  /\ c \in active
  /\ clientOpen[c]
  /\ sent[c] < MaxMsgs
  /\ MaySend(c)
  /\ sent' = [sent EXCEPT ![c] = @ + 1]
  /\ \E m \in ClientMessages : inbox' = [inbox EXCEPT ![c] = Append(@, m)]
  /\ UNCHANGED <<relayVars, enclaveUp, chanVars, enclaveVars, active,
                 progSet, pipelining, clientOpen, taskVars, histVars,
                 funVars, execVars>>

(* WDecode into the req of the previous iteration. *)
WDecodeIntoOldReq(c) ==
  /\ mainPc = "serving"
  /\ c \in active
  /\ pc[c] = "decode"
  /\ \/ /\ inbox[c] # <<>>
        /\ inbox' = [inbox EXCEPT ![c] = Tail(@)]
        /\ LET d == DecodeRequest(req[c], Head(inbox[c])) IN
             IF d.ok
             THEN /\ pc' = [pc EXCEPT ![c] = "check"]
                  /\ req' = [req EXCEPT ![c] = d.v]
                  /\ nread' = [nread EXCEPT ![c] = @ + 1]
             ELSE /\ pc' = [pc EXCEPT ![c] = "done"]
                  /\ UNCHANGED <<req, nread>>
     \/ /\ inbox[c] = <<>>
        /\ ~clientOpen[c]
        /\ pc' = [pc EXCEPT ![c] = "done"]
        /\ UNCHANGED <<inbox, req, nread>>
  /\ UNCHANGED <<relayVars, enclaveUp, chanVars, enclaveVars, active,
                 progSet, pipelining, sent, clientOpen, last, ndelivered,
                 resp, nwritten, histVars, funVars, execVars>>

(* relay lines 139-146: var req WASMRequest; decoder.Decode(&req) *)
WDecode(c) ==
  /\ mainPc = "serving"
  /\ c \in active
  /\ pc[c] = "decode"
  /\ \/ /\ inbox[c] # <<>>
        /\ inbox' = [inbox EXCEPT ![c] = Tail(@)]
        /\ LET d == DecodeRequest(ZeroRequest, Head(inbox[c])) IN
             IF d.ok
             THEN /\ pc' = [pc EXCEPT ![c] = "check"]
                  /\ req' = [req EXCEPT ![c] = d.v]
                  /\ nread' = [nread EXCEPT ![c] = @ + 1]
             ELSE /\ pc' = [pc EXCEPT ![c] = "done"]
                  /\ UNCHANGED <<req, nread>>
     \/ /\ inbox[c] = <<>>
        /\ ~clientOpen[c]
        /\ pc' = [pc EXCEPT ![c] = "done"]
        /\ UNCHANGED <<inbox, req, nread>>
  /\ UNCHANGED <<relayVars, enclaveUp, chanVars, enclaveVars, active,
                 progSet, pipelining, sent, clientOpen, last, ndelivered,
                 resp, nwritten, histVars, funVars, execVars>>

(* relay lines 73-82: encoder.Encode(req) on the enclave connection *)
WSend(c) ==
  /\ pc[c] = "send"
  /\ toEnc' = Append(toEnc, EncodeRequest(req[c]))
  /\ pc' = [pc EXCEPT ![c] = "recv"]
  /\ inflight' = inflight \cup {c}
  /\ UNCHANGED <<relayVars, enclaveUp, fromEnc, chanBroken, enclaveVars,
                 clientVars, last, ndelivered, req, resp, nread, nwritten,
                 dials, funVars, execVars>>

(* enclave lines 357-362: var wasmReq WASMRequest; decoder.Decode *)
WEnclaveDecode ==
  /\ epc = "decode"
  /\ toEnc # <<>>
  /\ LET d == DecodeRequest(ZeroRequest, Head(toEnc)) IN
       IF d.ok
       THEN ereq' = d.v /\ epc' = "exec"
       ELSE ereq' = ereq /\ epc' = "closed"
  /\ toEnc' = Tail(toEnc)
  /\ UNCHANGED <<relayVars, enclaveUp, fromEnc, chanBroken, clientVars,
                 taskVars, histVars, funVars, execVars>>

(* enclave lines 368-389: the response to wasmReq, encoded *)
WEnclaveRespond ==
  /\ epc = "exec"
  /\ fromEnc' = Append(fromEnc, EncodeResponse(Answer(ereq)))
  /\ epc' = "decode"
  /\ UNCHANGED <<relayVars, enclaveUp, toEnc, chanBroken, ereq, clientVars,
                 taskVars, histVars, funVars, execVars>>

(* relay lines 86-94: var response WASMResponse; decoder.Decode *)
WRecv(c) ==
  /\ pc[c] = "recv"
  /\ fromEnc # <<>>
  /\ \E n \in 1..Len(fromEnc) :
       fromEnc' = SubSeq(fromEnc, n + 1, Len(fromEnc))
  /\ resp' = [resp EXCEPT ![c] = DecodeResponse(Head(fromEnc))]
  /\ pc' = [pc EXCEPT ![c] = "reply"]
  /\ readers' = readers \ {c}
  /\ inflight' = inflight \ {c}
  /\ UNCHANGED <<mainPc, enclaveConn, enclaveConnected, writer, fresh,
                 enclaveUp, toEnc, chanBroken, enclaveVars, clientVars, last,
                 ndelivered, req, nread, nwritten, dials, funVars, execVars>>

(* relay lines 172-177: encoder.Encode(wasmResp), and the client's         *)
(* decoder.Decode(&response) of wasm-client lines 111-114                  *)
WReply(c) ==
  /\ pc[c] = "reply"
  /\ nwritten' = [nwritten EXCEPT ![c] = @ + 1]
  /\ IF clientOpen[c]
     THEN /\ last' = [last EXCEPT ![c] =
                 Out(nread[c], <<c, nread[c]>>,
                     DecodeResponse(EncodeResponse(resp[c])))]
          /\ ndelivered' = [ndelivered EXCEPT ![c] = @ + 1]
     ELSE UNCHANGED <<last, ndelivered>>
  /\ \E ok \in EncodeOutcomes(c) :
       pc' = [pc EXCEPT ![c] = IF ok THEN "decode" ELSE "done"]
  /\ UNCHANGED <<relayVars, enclaveUp, chanVars, enclaveVars, clientVars,
                 req, resp, nread, histVars, funVars, execVars>>

WireNext ==
  \/ MainConnect
  \/ \E c \in Conns : WClientSend(c)
  \/ \E c \in Conns : ClientClose(c)
  \/ \E c \in Conns : WDecode(c)
  \/ \E c \in Conns : CheckConnected(c)
  \/ \E c \in Conns : RLock(c)
  \/ \E c \in Conns : WSend(c)
  \/ WEnclaveDecode
  \/ WEnclaveRespond
  \/ \E c \in Conns : WRecv(c)
  \/ \E c \in Conns : WReply(c)

WireSpec == WireInit /\ [][WireNext]_vars

(***************************************************************************)
(* forwardToEnclave as a method of HostService that any caller may call:   *)
(* every step of the relay as it is and, beside, a caller that calls the   *)
(* method for the request it has decoded without looking at                *)
(* enclaveConnected first.                                                 *)
(***************************************************************************)
CallForward(c) ==
  /\ pc[c] = "check"
  /\ pc' = [pc EXCEPT ![c] = "rlock"]
  /\ UNCHANGED <<relayVars, enclaveUp, chanVars, enclaveVars, clientVars,
                 last, ndelivered, req, resp, nread, nwritten, histVars,
                 funVars, execVars>>

ForwardNext == Next \/ \E c \in Conns : CallForward(c)

(* every connection open, each client waiting for its response before it  *)
(* sends again, as wasm-client does                                        *)
ForwardInit ==
  /\ mainPc = "start"
  /\ enclaveUp \in BOOLEAN
  /\ enclaveConn = 0
  /\ enclaveConnected = FALSE
  /\ writer = 0
  /\ readers = {}
  /\ toEnc = <<>>
  /\ fromEnc = <<>>
  /\ chanBroken = FALSE
  /\ epc = "idle"
  /\ ereq = NoReq
  /\ active = Conns
  /\ progSet = FewPrograms
  /\ pipelining = FALSE
  /\ sent = [c \in Conns |-> 0]
  /\ clientOpen = [c \in Conns |-> TRUE]
  /\ inbox = [c \in Conns |-> <<>>]
  /\ last = [c \in Conns |-> NoOut]
  /\ ndelivered = [c \in Conns |-> 0]
  /\ pc = [c \in Conns |-> "decode"]
  /\ req = [c \in Conns |-> NoReq]
  /\ resp = [c \in Conns |-> NoResp]
  /\ nread = [c \in Conns |-> 0]
  /\ nwritten = [c \in Conns |-> 0]
  /\ fresh = Conns
  /\ dials = 0
  /\ inflight = {}
  /\ fpc = "off"
  /\ fin = NoFun
  /\ fout = NoFun
  /\ ExecOff

ForwardSpec == ForwardInit /\ [][ForwardNext]_vars

(***************************************************************************)
(* C1: every response delivered to a client that the enclave computed was  *)
(* computed from that client's own request, the one it answers.            *)
(***************************************************************************)
FromEnclave(o) == o.resp.src # NoReq

C1_FramingIntegrity ==
  \A c \in Conns : FromEnclave(last[c]) => last[c].resp.src.id = last[c].req

(***************************************************************************)
(* C2: at most one request/response exchange is in flight on the enclave   *)
(* connection: no task writes or reads between another task's write of     *)
(* its request and read of its response.                                   *)
(***************************************************************************)
C2_OneExchangeInFlight == Cardinality(inflight) <= 1

(***************************************************************************)
(* C3: once forwardToEnclave has failed on a write or a read of the        *)
(* enclave connection, the channel is Disconnected.                        *)
(***************************************************************************)
IOErrors ==
  { <<"failed to send request to enclave">>,
    <<"failed to decode WASM response from enclave">> }

ForwardIOFailed(c) ==
  /\ pc[c] = "replyErr"
  /\ \E e \in IOErrors :
       resp[c].error = Errorf("Enclave communication error", e)

C3_DisconnectedAfterIOError ==
  \A c \in Conns : ForwardIOFailed(c) => ~enclaveConnected

(***************************************************************************)
(* C4: on one client connection the request being handled is the next in   *)
(* arrival order, exactly one Encode is made for request k before request  *)
(* k+1 is decoded, and the responses the client receives answer its        *)
(* requests in order, none twice.                                          *)
(***************************************************************************)
Handling(c) == pc[c] \notin {"decode", "done"}

C4_InOrderOneResponse ==
  \A c \in Conns :
    /\ nwritten[c] <= nread[c]
    /\ nread[c] <= nwritten[c] + 1
    /\ ~Handling(c) => nwritten[c] = nread[c]
    /\ Handling(c) => nread[c] = nwritten[c] + 1 /\ req[c].id = <<c, nread[c]>>
    /\ ndelivered[c] <= nwritten[c]
    /\ last[c] # NoOut =>
         /\ last[c].req = <<c, last[c].k>>
         /\ ndelivered[c] <= last[c].k
         /\ last[c].k <= nwritten[c]
    /\ clientOpen[c] => ndelivered[c] = nwritten[c]

C4_Witness ==
  \E c \in Conns : ndelivered[c] >= 2 /\ last[c].k = ndelivered[c]

(***************************************************************************)
(* C5: under fair scheduling every request the relay has decoded is        *)
(* eventually answered: an Encode on that client connection follows.       *)
(***************************************************************************)
C5_EveryRequestAnswered ==
  \A c \in Conns : (nread[c] > nwritten[c]) ~> (nwritten[c] = nread[c])

(***************************************************************************)
(* C6: every response a client receives has a non-empty error and result   *)
(* 0, or an empty error and the value of an execution in which no step     *)
(* failed.                                                                 *)
(***************************************************************************)
Succeeds(p) ==
  /\ IF p.wat THEN (p.nsecrets > 0 => ~p.injectErr) /\ p.compileOK
              ELSE p.decodeOK
  /\ p.moduleOK
  /\ ~p.unresolved
  /\ p.exported
  /\ p.isFunc
  /\ p.callOK
  /\ p.retInt32

C6_ExactlyOneOutcome ==
  \A c \in Conns :
    last[c] # NoOut =>
      LET r == last[c].resp IN
        \/ r.error # EmptyString /\ r.result = 0
        \/ /\ r.error = EmptyString
           /\ FromEnclave(last[c])
           /\ Succeeds(r.src.prog)
           /\ r.result = r.src.prog.value

C6_Witness ==
  /\ progSet = Programs
  /\ ndelivered[1] = 2
  /\ last[1].resp.error = EmptyString
  /\ last[1].resp.result = 49

(***************************************************************************)
(* C7: a failed connect attempt leaves the channel Disconnected and makes  *)
(* an error response; that response is written and the loop goes on to     *)
(* decode the next request; while Disconnected every request makes a       *)
(* connect attempt, and an attempt made when the enclave is reachable       *)
(* connects.                                                               *)
(***************************************************************************)
ConnectFailure == Errorf("Could not connect to enclave", ConnectError)

C7_Step(c) ==
  /\ (pc[c] = "dial" /\ pc'[c] = "replyErr") =>
       /\ ~enclaveConnected'
       /\ enclaveConn' = 0
       /\ resp'[c].error = ConnectFailure
       /\ resp'[c].error # EmptyString
       /\ resp'[c].result = 0
  /\ (pc[c] = "replyErr" /\ resp[c].error = ConnectFailure /\ pc'[c] # pc[c]) =>
       /\ pc'[c] = "decode"
       /\ nwritten'[c] = nwritten[c] + 1
       /\ clientOpen[c] => last'[c].resp = resp[c] /\ last'[c].k = nread[c]
  /\ (pc[c] = "check" /\ ~enclaveConnected /\ pc'[c] # pc[c]) => pc'[c] = "lock"
  /\ (pc[c] = "dial" /\ ~enclaveConnected /\ enclaveUp /\ pc'[c] # pc[c]) =>
       enclaveConnected' /\ enclaveConn' # 0 /\ pc'[c] = "rlock"

C7_UnreachableIsRecoverable == [][\A c \in Conns : C7_Step(c)]_vars

C7_Witness ==
  \E c \in Conns :
    /\ last[c].k = 1
    /\ last[c].resp.error = ConnectFailure
    /\ nread[c] = 2
    /\ pc[c] = "send"
    /\ enclaveConnected

(***************************************************************************)
(* C8: injectSecretsIntoWAT rewrites each declaration whose name is in     *)
(* secrets, once and at the declaration's own position, into the global    *)
(* definition built from its identifier, kind and coerced literal, and     *)
(* leaves every other character of the source unchanged.                   *)
(***************************************************************************)
Rewritten(m, secrets) ==
  IF m.name \in DOMAIN secrets
  THEN GlobalDef(m.ident, m.kind,
                 convertSecretToWASMValue(secrets[m.name], m.kind).text)
  ELSE m.full

(* The source from position i on,
    each declaration of ms rewritten in place. *)
RECURSIVE ByPosition(_, _, _, _)
ByPosition(s, i, ms, secrets) ==
  IF ms = <<>> THEN SubSeq(s, i, Len(s))
  ELSE SubSeq(s, i, Head(ms).start - 1) \o Rewritten(Head(ms), secrets)
       \o ByPosition(s, Head(ms).end, Tail(ms), secrets)

InjectionDone == fpc \in {"injected",
    "executed"} /\ fout.inj.err = EmptyString

C8_RewritesAtOwnPosition ==
  InjectionDone =>
    fout.inj.text =
      ByPosition(fin.source, 1, FindAll(fin.source, 1), fin.secrets)

(***************************************************************************)
(* C9: a declaration whose name has no entry in secrets is left textually  *)
(* untouched by injection, and executing the resulting module, once        *)
(* compiled and loaded, fails at instantiation with the unresolved-import  *)
(* error and with no result.                                               *)
(***************************************************************************)
Declarations == FindAll(fin.source, 1)

(* Where the k-th declaration starts once those before it are rewritten. *)
NewStart(k) ==
  1 + Len(ByPosition(SubSeq(fin.source, 1, Declarations[k].start - 1), 1,
                     SubSeq(Declarations, 1, k - 1), fin.secrets))

C9_MissingSecretUnresolved ==
  InjectionDone =>
    \A k \in DOMAIN Declarations :
      Declarations[k].name \notin DOMAIN fin.secrets =>
        /\ HasPrefixAt(fout.inj.text, NewStart(k), Declarations[k].full)
        /\ (fpc = "executed" /\ fout.env.compileOK /\ fout.env.moduleOK) =>
             fout.run = Ret(0, <<"failed to create WASM instance">>)

(***************************************************************************)
(* C10: for a secret that is not a base-10 integer within the kind's       *)
(* range, the literal convertSecretToWASMValue makes for i32 or i64 is     *)
(* non-negative.                                                           *)
(***************************************************************************)
BitSize(kind) == IF kind = I32 THEN 32 ELSE 64

C10_HashLiteralNonNegative ==
  (/\ fpc = "coerced"
   /\ fin.kind \in {I32, I64}
   /\ ~ParseInt(fin.secret, BitSize(fin.kind)).ok) =>
    /\ fout.err = EmptyString
    /\ fout.text # <<>>
    /\ fout.text[1] # "-"

(***************************************************************************)
(* C11 as stated: for i32 and i64 a secret that parses as a base-10        *)
(* integer within the kind's range is returned verbatim as the literal; a  *)
(* secret that does not is replaced by the decimal text of its polynomial  *)
(* hash; no error is returned in either case.                              *)
(***************************************************************************)
IntegerCoerced == fpc = "coerced" /\ fin.kind \in {I32, I64}

HashLiteral == fout.text = FormatInt32(simpleStringHash(fin.secret))

C11_VerbatimOrHash ==
  IntegerCoerced =>
    /\ fout.err = EmptyString
    /\ IF ParseInt(fin.secret, BitSize(fin.kind)).ok
       THEN fout.text = fin.secret
       ELSE HashLiteral

(* a decimal integer text as fmt's %d writes one: no "+", no leading      *)
(* zeros, no "-0"                                                          *)
IsCanonical(s) ==
  /\ AllDigits(Unsigned(s))
  /\ s[1] # "+"
  /\ Unsigned(s)[1] = "0" => s = <<"0">>

(* two decimal integer texts that denote the same integer *)
SameInteger(a, b) ==
  /\ StripZeros(Unsigned(a)) = StripZeros(Unsigned(b))
  /\ \/ StripZeros(Unsigned(a)) = <<"0">>
     \/ (a[1] = "-") = (b[1] = "-")

(***************************************************************************)
(* C11 amended: for i32 and i64 a secret that parses as a base-10 integer  *)
(* within the kind's range yields the canonical decimal text of that       *)
(* integer (the secret verbatim when the secret is already canonical); a   *)
(* secret that does not yields the decimal text of its polynomial hash;    *)
(* no error is returned in either case.                                    *)
(***************************************************************************)
C11_CanonicalOrHash ==
  IntegerCoerced =>
    /\ fout.err = EmptyString
    /\ IF ParseInt(fin.secret, BitSize(fin.kind)).ok
       THEN /\ IsCanonical(fout.text)
            /\ SameInteger(fout.text, fin.secret)
            /\ IsCanonical(fin.secret) => fout.text = fin.secret
       ELSE HashLiteral

C11_Witness ==
  \/ /\ IntegerCoerced
     /\ fin.secret = <<"+", "0", "5">>
     /\ fout.text = <<"5">>
  \/ /\ IntegerCoerced
     /\ fin.secret = <<"h", "e", "l", "l", "o">>
     /\ fout.text = <<"9", "9", "1", "6", "2", "3", "2", "2">>

(***************************************************************************)
(* C12: a request whose WAT source declares an f32 or f64 placeholder      *)
(* with a secret that strconv.ParseFloat rejects: the coercion returns an  *)
(* error and no literal (no hash fallback), injectSecretsIntoWAT returns   *)
(* the error and no text even when an earlier declaration was rewritten,   *)
(* ExecuteWASM returns before compileWATToWASM, the runtime and the files  *)
(* are used, and the response has error set and result 0.                  *)
(***************************************************************************)
FloatFails(m, secrets) ==
  /\ m.kind \in {F32, F64}
  /\ m.name \in DOMAIN secrets
  /\ ~ParseFloatOK(secrets[m.name])

FloatFailure(rq) ==
  /\ isWATText(rq.code)
  /\ \E k \in DOMAIN FindAll(rq.code, 1) :
       FloatFails(FindAll(rq.code, 1)[k], rq.secrets)

InjectFailed ==
  <<"failed to inject secrets", "failed to convert secret",
    "cannot convert string secret to float type">>

Handling12(t) == hc[t].pc \notin {"off", "decode", "begin", "closed"}

CompileFailed(t) ==
  /\ hc[t].ret.err # EmptyString
  /\ hc[t].ret.err[1] = "failed to compile WAT to WASM"

C14_CompilesOwnSource ==
  \A t \in Tasks :
    /\ hc[t].pc = "emit" => hc[t].input = hc[t].processedWAT
    /\ hc[t].wasmBytes.kind = "wasm" =>
         hc[t].wasmBytes = Compiled(hc[t].processedWAT)
    /\ (CompileFailed(t) /\ ~hc[t].faulted) =>
         ~Wat2WasmAccepts(hc[t].processedWAT)

(***************************************************************************)
(* C15: once every compileWATToWASM call that was made has returned, on    *)
(* whatever path, neither /tmp/temp.wat nor /tmp/temp.wasm exists.         *)
(***************************************************************************)
InCompile(t) == hc[t].pc \in {"write", "wat2wasm", "emit", "read", "cleanup"}

C15_NoTemporaryFileRemains ==
  (\A t \in Tasks : ~InCompile(t)) => files = NoFiles

(***************************************************************************)
(* C16: when the execution of a request fails (template, compile, decode,  *)
(* module, instantiation, lookup, trap, return type), handleConnection     *)
(* writes one response, for that request, with the error set and result 0, *)
(* and goes on to decode the next request; a response without error is     *)
(* written only for an execution in which no step failed; the relay task   *)
(* that reads and passes on a response with an execution error leaves the  *)
(* stored connection, the connected flag and the channel as they are and   *)
(* goes on to its next request.                                            *)
(***************************************************************************)
ExecutionFailure(r) == r.src # NoReq /\ r.error # EmptyString

C16_Enclave ==
  (epc = "exec" /\ epc' # epc /\ ~chanBroken) =>
    /\ epc' = "decode"
    /\ Len(fromEnc') = Len(fromEnc) + 1
    /\ SubSeq(fromEnc', 1, Len(fromEnc)) = fromEnc
    /\ LET r == fromEnc'[Len(fromEnc')] IN
         /\ r.src = ereq
         /\ (r.error # EmptyString) <=> ~Succeeds(ereq.prog)
         /\ ~Succeeds(ereq.prog) => r.result = 0 /\ r.error[1] = "WASM execution failed"

C16_Relay(c) ==
  /\ (pc[c] = "recv" /\ pc'[c] # pc[c] /\ ExecutionFailure(resp'[c])) =>
       /\ pc'[c] = "reply"
       /\ UNCHANGED <<enclaveConn, enclaveConnected, chanBroken, toEnc, epc,
                      ereq>>
  /\ (pc[c] = "reply" /\ pc'[c] # pc[c] /\ ExecutionFailure(resp[c])) =>
       /\ clientOpen[c] => pc'[c] = "decode" /\ last'[c].resp = resp[c]
       /\ UNCHANGED <<enclaveConn, enclaveConnected, chanVars, epc, ereq>>

C16_FailureStaysInItsResponse ==
  [][C16_Enclave /\ \A c \in Conns : C16_Relay(c)]_vars

(* The first request failed in the enclave and its response was delivered; *)
(* the response to the second request has come over the same connection.   *)
C16_Witness ==
  /\ ExecutionFailure(last[1].resp)
  /\ last[1].k = 1
  /\ pc[1] = "reply"
  /\ resp[1].src.id = <<1, 2>>
  /\ resp[1].error = EmptyString
  /\ resp[1].result = 49
  /\ enclaveConnected
  /\ dials = 1
  /\ epc = "decode"

(***************************************************************************)
(* C17: when the instantiated module has no export of the requested name,  *)
(* ExecuteWASM returns the function-not-found error, and when the export   *)
(* is not a function, the not-a-function error; in both cases the response *)
(* written for the request has that error and result 0, and wasmFunc.Call  *)
(* is not made.                                                            *)
(***************************************************************************)
NotFound == <<"function not found in WASM module">>

NotAFunction == <<"is not a function">>

C17_Lookup(t) ==
  LET missing == ~Exported(hc[t].wasmBytes, hc[t].wasmReq.fn)
      other == ~missing /\ ~ExportedFunc(hc[t].wasmBytes, hc[t].wasmReq.fn)
  IN (hc[t].pc = "lookup" /\ hc'[t].pc # "lookup" /\ (missing \/ other)) =>
       /\ hc'[t].pc = "respond"
       /\ hc'[t].ret = Ret(0, IF missing THEN NotFound ELSE NotAFunction)
       /\ ncalls' = ncalls

C17_Respond(t) ==
  (/\ hc[t].pc = "respond"
   /\ hc'[t].pc # "respond"
   /\ hc[t].ret.err \in {NotFound, NotAFunction}) =>
    /\ Len(responses'[t]) = Len(responses[t]) + 1
    /\ LET r == responses'[t][Len(responses'[t])] IN
         /\ r.req = hc[t].wasmReq
         /\ r.resp.result = 0
         /\ r.resp.error = Errorf("WASM execution failed", hc[t].ret.err)
    /\ ncalls' = ncalls

C17_LookupFailureCallsNothing ==
  [][\A t \in Tasks : C17_Lookup(t) /\ C17_Respond(t)]_vars

C17_Witness ==
  /\ Len(responses[1]) = MaxRuns
  /\ responses[1][1].req.code = SquareText
  /\ responses[1][1].req.fn # <<"s", "q", "u", "a", "r", "e">>
  /\ responses[1][MaxRuns].resp.error
       = Errorf("WASM execution failed", NotFound)
  /\ responses[1][MaxRuns].resp.result = 0
  /\ ~responses[1][MaxRuns].faulted
  /\ ncalls[1] = 0

(***************************************************************************)
(* C18: the responses to one request sent several times in sequence on a   *)
(* connection carry the same result and the same error, whenever the       *)
(* executions themselves met no failure of the file system: neither the    *)
(* store of an earlier execution nor a file it left in /tmp changes the    *)
(* outcome of a later one.                                                 *)
(***************************************************************************)
SameOutcome(a, b) ==
  /\ a.resp.result = b.resp.result
  /\ a.resp.error = b.resp.error

C18_SameOutcomeInSequence ==
  \A t \in Tasks : \A i, j \in 1..Len(responses[t]) :
    (/\ responses[t][i].req = responses[t][j].req
     /\ ~responses[t][i].faulted
     /\ ~responses[t][j].faulted) =>
      SameOutcome(responses[t][i], responses[t][j])

C18_Witness ==
  /\ Len(responses[1]) = MaxRuns
  /\ responses[1][1].faulted
  /\ \A i \in 2..MaxRuns :
       /\ ~responses[1][i].faulted
       /\ responses[1][i].req.code = CounterText
       /\ responses[1][i].resp.result = 1
       /\ responses[1][i].resp.error = EmptyString

(***************************************************************************)
(* C19: a step in which handleClientConnection returns, on a failed Decode *)
(* of a request or a failed Encode of a response, changes nothing but that *)
(* connection's own task: HostService (enclaveConn, enclaveConnected, mu), *)
(* the enclave connection and the enclave's handler stay as they are, and  *)
(* so do the position, locals and client side of every other connection,   *)
(* and whether a task may take mu for reading or for writing.              *)
(***************************************************************************)
TransportError(c) == pc[c] \in {"decode", "reply"} /\ pc'[c] = "done"

C19_Others(c) ==
  \A d \in Conns \ {c} :
    /\ pc'[d] = pc[d]
    /\ req'[d] = req[d]
    /\ resp'[d] = resp[d]
    /\ nread'[d] = nread[d]
    /\ nwritten'[d] = nwritten[d]
    /\ inbox'[d] = inbox[d]
    /\ last'[d] = last[d]
    /\ ndelivered'[d] = ndelivered[d]
    /\ clientOpen'[d] = clientOpen[d]

C19_Step(c) ==
  TransportError(c) =>
    /\ UNCHANGED <<relayVars, chanVars, enclaveVars, histVars>>
    /\ CanLock' = CanLock
    /\ CanRLock' = CanRLock
    /\ C19_Others(c)

C19_TransportErrorEndsOnlyItsTask == [][\A c \in Conns : C19_Step(c)]_vars

C19_Witness ==
  /\ pc[1] = "done"
  /\ pc[2] = "recv"
  /\ 2 \in readers
  /\ enclaveConnected
  /\ enclaveConn # 0
  /\ ~chanBroken

(***************************************************************************)
(* C20: at most one task is inside connectToEnclave at a time, and it      *)
(* holds mu alone; a task that finds enclaveConnected set once it has the  *)
(* lock returns nil without dialing and goes on to forward its request;    *)
(* no more than one dial ever succeeds, so HostService never holds a       *)
(* second enclave connection.                                              *)
(***************************************************************************)
Dialing == {c \in Conns : pc[c] = "dial"}

C20_OneAttempt ==
  /\ Cardinality(Dialing) <= 1
  /\ \A c \in Dialing : writer = c /\ readers = {} /\ mainPc = "serving"
  /\ dials <= 1
  /\ enclaveConn \in {0, 1}
  /\ enclaveConnected <=> dials = 1

C20_AlreadyConnected(c) ==
  (pc[c] = "dial" /\ pc'[c] # "dial" /\ enclaveConnected) =>
    /\ pc'[c] = "rlock"
    /\ resp'[c] = resp[c]
    /\ UNCHANGED <<enclaveConn, enclaveConnected, dials, chanVars,
                   enclaveVars>>

C20_ConnectOnce ==
  [][/\ C20_OneAttempt
     /\ C20_OneAttempt'
     /\ \A c \in Conns : C20_AlreadyConnected(c)]_vars

C20_Witness ==
  \E c \in Conns :
    /\ pc[c] = "dial"
    /\ writer = c
    /\ enclaveConnected
    /\ dials = 1
    /\ \E d \in Conns \ {c} : pc[d] \in {"rlock", "send", "recv"}

(***************************************************************************)
(* C21: a task inside forwardToEnclave, between writing its request and    *)
(* reading the response, holds no lock on mu: it is not among the readers, *)
(* and another task that waits in connectToEnclave for h.mu.Lock() can     *)
(* take the lock.                                                          *)
(***************************************************************************)
C21_ForwardHoldsNoLock ==
  \A c \in Conns :
    pc[c] = "recv" =>
      /\ c \notin readers
      /\ \A d \in Conns \ {c} : pc[d] = "lock" => CanLock

(***************************************************************************)
(* C22: a connectToEnclave whose dial fails leaves enclaveConn,            *)
(* enclaveConnected and the enclave connection's contents as they were;    *)
(* the task then encodes the synthesized "Could not connect to enclave"    *)
(* response with result 0 on the client connection and returns to Decode,  *)
(* and neither step writes anything to an enclave connection.  The failed *)
(* attempt of main, which no request triggers, changes nothing either.     *)
(***************************************************************************)
CouldNotConnect ==
  WASMResponse(0, Errorf("Could not connect to enclave", ConnectError), NoReq)

C22_Attempt(c) ==
  (pc[c] = "dial" /\ pc'[c] = "replyErr") =>
    /\ ~enclaveConnected
    /\ UNCHANGED <<enclaveConn, enclaveConnected, dials, chanVars,
                   enclaveVars, inflight>>
    /\ resp'[c] = CouldNotConnect
    /\ req'[c] = req[c]

C22_Answer(c) ==
  (pc[c] = "replyErr" /\ pc'[c] # "replyErr" /\ resp[c] = CouldNotConnect) =>
    /\ pc'[c] = "decode"
    /\ nwritten'[c] = nwritten[c] + 1
    /\ clientOpen[c] => last'[c] = Out(nread[c], req[c].id, CouldNotConnect)
    /\ UNCHANGED <<enclaveConn, enclaveConnected, dials, chanVars,
                   enclaveVars, inflight>>

C22_Main ==
  (mainPc = "start" /\ mainPc' = "serving" /\ ~enclaveUp) =>
    UNCHANGED <<enclaveConn, enclaveConnected, dials, chanVars, enclaveVars>>

C22_FailedConnectChangesNothing ==
  [][C22_Main /\ \A c \in Conns : C22_Attempt(c) /\ C22_Answer(c)]_vars

C22_Witness ==
  \E c \in Conns :
    /\ last[c].k = nread[c]
    /\ last[c].resp = CouldNotConnect
    /\ pc[c] = "decode"
    /\ ~enclaveConnected
    /\ enclaveConn = 0
    /\ dials = 0
    /\ toEnc = <<>>

(***************************************************************************)
(* C23: with one client connection and an enclave that is reachable and    *)
(* answers, the request the enclave decodes has the four fields of the     *)
(* document the client wrote, the response the relay holds is the one the  *)
(* enclave made for that request, and the client reads that response,      *)
(* result and error, as the answer to the request it sent last.            *)
(***************************************************************************)
StringOf(j) == IF j.t = "string" THEN j.v ELSE <<>>

SliceOf(j) == IF j.t = "array" THEN NonNil(j.v) ELSE Nil

MapOf(j) == IF j.t = "object" THEN NonNil(j.v) ELSE Nil

FieldsOf(m) ==
  ExecRequest(StringOf(m.wasm_code), StringOf(m.function_name),
              SliceOf(m.args), MapOf(m.secrets))

Forwarding(c) == pc[c] \in {"check", "rlock", "send", "recv"}

C23_Exchange(c) ==
  /\ pc[c] = "recv" =>
       /\ Len(toEnc) <= 1
       /\ toEnc # <<>> => FieldsOf(Head(toEnc)) = req[c]
       /\ epc = "exec" => ereq = req[c]
       /\ fromEnc # <<>> => fromEnc = <<EncodeResponse(Answer(req[c]))>>
  /\ pc[c] = "reply" => resp[c] = Answer(req[c])

C23_Step(c) ==
  /\ (pc[c] = "decode" /\ pc'[c] = "check") =>
       req'[c] = FieldsOf(Head(inbox[c]))
  /\ Forwarding(c) => req'[c] = req[c]
  /\ C23_Exchange(c)'
  /\ (pc[c] = "reply" /\ pc'[c] # "reply" /\ clientOpen[c]) =>
       /\ last'[c] = Out(sent[c], <<c, sent[c]>>, Answer(req[c]))
       /\ ndelivered'[c] = sent[c]

C23_PassesUnchanged == [][\A c \in active : C23_Step(c)]_vars

C23_Witness ==
  /\ ndelivered[1] = MaxMsgs
  /\ last[1] = Out(MaxMsgs, <<1, MaxMsgs>>, WireResponse(49, EmptyString))
  /\ req[1] = ExecRequest(SquareText, Square, NonNil(<<7>>), Nil)
  /\ pc[1] = "decode"

(***************************************************************************)
(* C24: enclaveConnected implies that enclaveConn is not nil; a request is *)
(* written to the enclave connection only by a task inside                 *)
(* forwardToEnclave with the flag set and the connection stored; and a     *)
(* forwardToEnclave called with the flag clear or the connection nil       *)
(* returns the "not connected to enclave" error, having written and read   *)
(* nothing and holding no lock.                                            *)
(***************************************************************************)
Connected == enclaveConnected /\ enclaveConn # 0

NotConnected ==
  WASMResponse(0, Errorf("Enclave communication error",
                         <<"not connected to enclave">>), NoReq)

C24_FlagMeansConnection == enclaveConnected => enclaveConn # 0

C24_Write ==
  Len(toEnc') > Len(toEnc) =>
    \E c \in Conns :
      /\ pc[c] = "send"
      /\ c \in readers
      /\ Connected
      /\ toEnc' = Append(toEnc, req[c])

C24_Refuse(c) ==
  (pc[c] = "rlock" /\ pc'[c] # "rlock" /\ ~Connected) =>
    /\ pc'[c] = "replyErr"
    /\ resp'[c] = NotConnected
    /\ UNCHANGED <<relayVars, chanVars, enclaveVars, histVars>>

C24_Enter(c) ==
  (pc[c] = "rlock" /\ pc'[c] # "rlock" /\ Connected) =>
    pc'[c] = "send" /\ c \in readers'

C24_ForwardOnlyWhenConnected ==
  [][/\ C24_FlagMeansConnection
     /\ C24_FlagMeansConnection'
     /\ C24_Write
     /\ \A c \in Conns : C24_Refuse(c) /\ C24_Enter(c)]_vars

C24_Witness ==
  \E c \in Conns :
    /\ last[c].resp = NotConnected
    /\ last[c].k = 1
    /\ nread[c] = 2
    /\ pc[c] = "recv"
    /\ toEnc = <<req[c]>>
    /\ Connected

(***************************************************************************)
(* C25: once enclaveConnected is set, every step leaves the flag set and   *)
(* enclaveConn the connection it is, and no step of a relay task closes    *)
(* that connection, whether a forward succeeds or fails or a client goes   *)
(* away; the relay therefore dials with success once at most.              *)
(***************************************************************************)
TaskMoves == \E c \in Conns : pc'[c] # pc[c]

C25_Step ==
  enclaveConnected =>
    /\ enclaveConnected'
    /\ enclaveConn' = enclaveConn
    /\ dials' = dials
    /\ TaskMoves => chanBroken' = chanBroken

C25_ChannelStateMonotonic == [][C25_Step /\ dials' <= 1]_vars

C25_Witness ==
  \E c \in Conns :
    /\ chanBroken
    /\ last[c].resp.error
         = Errorf("Enclave communication error",
                  <<"failed to decode WASM response from enclave">>)
    /\ ~clientOpen[c]
    /\ pc[c] = "done"
    /\ enclaveConnected
    /\ enclaveConn = 1
    /\ dials = 1

(***************************************************************************)
(* C26: under fair scheduling of the tasks and of the enclave's handler,   *)
(* a task that waits for h.mu.Lock() or h.mu.RLock() eventually gets it,   *)
(* and a task that holds mu, for writing or for reading, eventually        *)
(* releases it.                                                            *)
(***************************************************************************)
Waiting(c) == pc[c] \in {"lock", "rlock"}

C26_LockAlwaysReleased ==
  \A c \in Conns :
    /\ Waiting(c) ~> ~Waiting(c)
    /\ (writer = c) ~> (writer # c)
    /\ (c \in readers) ~> (c \notin readers)

====
